---- MODULE Spec2Model ----
(***************************************************************************)
(* Model of the snes-bluetooth-adapter crates: the bounded buffer          *)
(* Writer/Reader (crates/utils), the HCI command encoder and the           *)
(* Advertising Data codec and the packet and event decoders               *)
(* (crates/ble/src/hci).                                                   *)
(*                                                                         *)
(* Representation of values.                                               *)
(*   - a byte buffer is a sequence of integers in 0..255; index i of the   *)
(*     Rust slice is element i+1 of the sequence;                          *)
(*   - a u8 is an integer; a wider unsigned integer (u16, u32, u64, u128)  *)
(*     is the sequence of its 16-bit limbs, most significant limb first    *)
(*     (u16: 1 limb, u32: 2, u64: 4, u128: 8), so that every value of the  *)
(*     type is representable with TLC's 32-bit integers;                   *)
(*   - Option<T> is [some |-> BOOLEAN, val |-> T].                         *)
(***************************************************************************)
EXTENDS Integers, Sequences, FiniteSets, TLC

VARIABLES
    writer,     \* utils::Writer under test: [buf, pos]
    wcall,      \* the last Writer call: its operation, bytes, pre-state and result
    wcount,     \* number of Writer calls made so far
    ad_pc,      \* Advertising Data codec run: "idle" | "encoded" | "iterating" | "decoding"
    ad_in,      \* AdvertisingData::write_into arguments: [ad, cap, fill]
    ad_out,     \* its result: [res |-> Option<usize>, buf |-> the buffer after]
    adit,       \* AdvertisingDataIterator: [reader, base]
    adit_out,   \* what the calls of next() made so far returned, in order
    cmd_pc,     \* command encoder run: "idle" | "done"
    cmd_in,     \* HCICommand::write_into arguments: [cmd, cap, fill]
    cmd_out,    \* its result: [res |-> Option<usize>, buf |-> the buffer after]
    pkt_pc,     \* packet decoder run: "idle" | "parsed" | "decoded"
    pkt_in,     \* the buffer given to HCIPacket::from_buf
    pkt_out,    \* its result: [pkt, warn]
    evt_out,    \* the result of HCIEvent::from_packet on that packet
    rep_it,     \* the AdvertisingReportIterator of that event: [num_reports, reader]
    rep_out,    \* what the calls of its next() made so far returned, in order
    rd,         \* utils::Reader under test: [buf, pos]
    rd_call,    \* the last Reader call: its operation, argument, pre-state and result
    rd_count,   \* number of Reader calls made so far
    ble_buf,    \* Ble::buf
    ble_sent,   \* the byte strings handed to the connector, in order
    st_value,   \* state::State::value
    st_call,    \* the last State call: its operation, argument, pre-state and result
    st_n,       \* calls of next() since Default / reset_cycle, -1 once a setter intervened
    st_base,    \* State::value when that count started
    st_sets     \* number of set_<button> calls made so far

wvars == <<writer, wcall, wcount>>
advars == <<ad_pc, ad_in, ad_out, adit, adit_out>>
cmdvars == <<cmd_pc, cmd_in, cmd_out>>
pktvars == <<pkt_pc, pkt_in, pkt_out, evt_out, rep_it, rep_out>>
rdvars == <<rd, rd_call, rd_count>>
blevars == <<ble_buf, ble_sent>>
stvars == <<st_value, st_call, st_n, st_base, st_sets>>
vars == <<wvars, advars, cmdvars, pktvars, rdvars, blevars, stvars>>

(***************************************************************************)
(* Bounds of the model.                                                    *)
(***************************************************************************)
\* largest capacity of a buffer handed to Writer::new in the Writer runs
MaxCap == 17
\* number of write calls made on one Writer
MaxWrites == 3

\* bytes a caller's buffer may hold before it is written to
FillBytes == {0, 238}

Pad(n, b) == [i \in 1..n |-> b]

Some(v) == [some |-> TRUE, val |-> v]
None == [some |-> FALSE, val |-> 0]

(***************************************************************************)
(* Integer <-> byte conversions.                                           *)
(***************************************************************************)
\* uN::to_le_bytes for a value given as 16-bit limbs, most significant first
to_le_bytes(limbs) ==
    LET n == Len(limbs) IN
    [i \in 1..(2 * n) |->
        LET l == limbs[n - ((i - 1) \div 2)] IN
        IF i % 2 = 1 THEN l % 256 ELSE l \div 256]

\* u8::to_le_bytes
u8_to_le_bytes(value) == <<value % 256>>

(***************************************************************************)
(* utils::Writer                                                           *)
(***************************************************************************)
Writer_new(buf) == [buf |-> buf, pos |-> 0]

\* write_slice with the capacity check on the cursor alone: the copy then
\* indexes past the end of the buffer
Writer_write_slice_cursor_only(w, slice) ==
    IF w.pos >= Len(w.buf) /\ Len(slice) > 0
    THEN [w |-> w, res |-> "BufferOverflow"]
    ELSE IF w.pos + Len(slice) > Len(w.buf)
    THEN [w |-> w, res |-> "Panic"]
    ELSE [w |-> [buf |-> [i \in 1..Len(w.buf) |->
                            IF i > w.pos /\ i <= w.pos + Len(slice)
                            THEN slice[i - w.pos] ELSE w.buf[i]],
                 pos |-> w.pos + Len(slice)],
          res |-> "Ok"]

\* Writer::write_slice.  The result is the Writer after the call and
\* "Ok" | "BufferOverflow" | "Panic" (self.buf[a..b] with b > len panics
\* before any byte is copied).
Writer_write_slice(w, slice) ==
    IF w.pos + Len(slice) >= Len(w.buf)
    THEN [w |-> w, res |-> "BufferOverflow"]
    ELSE IF w.pos + Len(slice) > Len(w.buf)
    THEN [w |-> w, res |-> "Panic"]
    ELSE [w |-> [buf |-> [i \in 1..Len(w.buf) |->
                            IF i > w.pos /\ i <= w.pos + Len(slice)
                            THEN slice[i - w.pos] ELSE w.buf[i]],
                 pos |-> w.pos + Len(slice)],
          res |-> "Ok"]

Writer_write_u8(w, value) == Writer_write_slice(w, u8_to_le_bytes(value))
Writer_write_u16(w, value) == Writer_write_slice(w, to_le_bytes(value))
Writer_write_u32(w, value) == Writer_write_slice(w, to_le_bytes(value))
Writer_write_u64(w, value) == Writer_write_slice(w, to_le_bytes(value))
Writer_write_u128(w, value) == Writer_write_slice(w, to_le_bytes(value))

\* the statement `writer.write_*(..);` whose Result is dropped: the Writer
\* after the call, whether it was Ok or Err
Dropped(r) == r.w

(***************************************************************************)
(* hci::gap  AdvertisingDataType and AdvertisingData                       *)
(*                                                                         *)
(* An AdvertisingData value is [variant |-> name, val |-> Seq(Int)]:       *)
(*   Flags(u8)                 val = <<flags>>                             *)
(*   ..ListOf16BitServiceUUIDs val = one limb per element                  *)
(*   ..ListOf32BitServiceUUIDs val = 2 limbs per element, in list order    *)
(*   ..ListOf128BitServiceUUIDs val = 8 limbs per element                  *)
(*   ..LocalName(&str)         val = the UTF-8 bytes                       *)
(*   TxPowerLevel(i8)          val = <<level>>, level in -128..127         *)
(*   ClassOfDevice(u32)        val = 2 limbs                               *)
(*   Appearance(u16)           val = 1 limb                                *)
(*   the &[u8] variants        val = the bytes                             *)
(***************************************************************************)
\* `AdvertisingDataType::X as u8`, the discriminants of gap.rs
AdvertisingDataType_as_u8(t) ==
    CASE t = "Flags" -> 1
      [] t = "IncompleteListOf16BitServiceUUIDs" -> 2
      [] t = "CompleteListOf16BitServiceUUIDs" -> 3
      [] t = "IncompleteListOf32BitServiceUUIDs" -> 4
      [] t = "CompleteListOf32BitServiceUUIDs" -> 5
      [] t = "IncompleteListOf128BitServiceUUIDs" -> 6
      [] t = "CompleteListOf128BitServiceUUIDs" -> 7
      [] t = "ShortenedLocalName" -> 8
      [] t = "CompleteLocalName" -> 9
      [] t = "TxPowerLevel" -> 10
      [] t = "ClassOfDevice" -> 13
      [] t = "PeripheralConnectionIntervalRange" -> 18
      [] t = "ServiceData" -> 22
      [] t = "Appearance" -> 25
      [] t = "LEBluetoothDeviceAddress" -> 27
      [] t = "ManufacturerSpecificData" -> 255

\* limbs per element of the slice a UUID-list variant carries (0: no list)
UuidLimbs(variant) ==
    CASE variant \in {"IncompleteListOf16BitServiceUUIDs",
                      "CompleteListOf16BitServiceUUIDs"} -> 1
      [] variant \in {"IncompleteListOf32BitServiceUUIDs",
                      "CompleteListOf32BitServiceUUIDs"} -> 2
      [] variant \in {"IncompleteListOf128BitServiceUUIDs",
                      "CompleteListOf128BitServiceUUIDs"} -> 8
      [] OTHER -> 0

\* uuids.len() of a &[uN] given as limbs, k limbs per element
SliceLen(limbs, k) == Len(limbs) \div k

\* SliceAs::as_u8_slice of a &[uN]: the bytes of the elements in memory
\* order, each element in the (little-endian) byte order of the target
as_u8_slice(limbs, k) ==
    Some([i \in 1..(2 * Len(limbs)) |->
            LET e == (i - 1) \div (2 * k)
                j == ((i - 1) % (2 * k)) + 1
            IN to_le_bytes(SubSeq(limbs, e * k + 1, e * k + k))[j]])

\* `x as u8` of a usize or an i8
as_u8(x) == (x + 256) % 256

\* the variant whose tag write_into writes for each variant of self
WrittenType(variant) ==
    CASE variant = "ServiceData" -> "PeripheralConnectionIntervalRange"
      [] variant = "Appearance" -> "PeripheralConnectionIntervalRange"
      [] variant = "LEBluetoothDeviceAddress" -> "PeripheralConnectionIntervalRange"
      [] variant = "ManufacturerSpecificData" -> "PeripheralConnectionIntervalRange"
      [] OTHER -> variant

\* the three writes of one match arm of write_into:
\* [len |-> first byte, tag |-> second byte, payload |-> Option<bytes>]
\* (payload is None when `as_u8_slice()?` returns early)
WriteIntoArm(ad) ==
    LET v == ad.variant
        k == UuidLimbs(v)
        tag == AdvertisingDataType_as_u8(WrittenType(v))
    IN
    CASE v = "Flags" ->
            [len |-> as_u8(2 * 1), tag |-> tag,
             payload |-> Some(u8_to_le_bytes(ad.val[1]))]
      [] k > 0 ->
            [len |-> as_u8(SliceLen(ad.val, k) * (2 * k) + 1), tag |-> tag,
             payload |-> as_u8_slice(ad.val, k)]
      [] v \in {"ShortenedLocalName", "CompleteLocalName"} ->
            [len |-> as_u8(Len(ad.val) + 1), tag |-> tag, payload |-> Some(ad.val)]
      [] v = "TxPowerLevel" ->
            [len |-> as_u8(1 + 1), tag |-> tag,
             payload |-> Some(u8_to_le_bytes(as_u8(ad.val[1])))]
      [] v = "ClassOfDevice" ->
            [len |-> as_u8(4 + 1), tag |-> tag, payload |-> Some(to_le_bytes(ad.val))]
      [] v = "Appearance" ->
            [len |-> as_u8(2 + 1), tag |-> tag, payload |-> Some(to_le_bytes(ad.val))]
      [] v \in {"PeripheralConnectionIntervalRange", "ServiceData",
                "LEBluetoothDeviceAddress", "ManufacturerSpecificData"} ->
            [len |-> as_u8(Len(ad.val) + 1), tag |-> tag, payload |-> Some(ad.val)]

\* AdvertisingData::write_into(&self, buf): [res |-> Option<usize>, buf]
AdvertisingData_write_into(ad, buf) ==
    LET arm == WriteIntoArm(ad)
        w0 == Writer_new(buf)
        w1 == Dropped(Writer_write_u8(w0, arm.len))
        w2 == Dropped(Writer_write_u8(w1, arm.tag))
    IN IF ~arm.payload.some
       THEN [res |-> None, buf |-> w2.buf]
       ELSE LET w3 == Dropped(Writer_write_slice(w2, arm.payload.val))
            IN [res |-> Some(w3.pos), buf |-> w3.buf]

(***************************************************************************)
(* hci::command  HCICommand::write_into                                    *)
(*                                                                         *)
(* A command is a record with field `kind` and the fields of its variant;  *)
(* u8 and u16 fields are integers, `data` is a sequence of AdvertisingData.*)
(***************************************************************************)
HCI_COMMAND_PACKET_TYPE == 1
OGF_CONTROL_AND_BASEBAND_COMMAND == 3
OCF_RESET == 3
OGF_LE_CONTROLLER_COMMAND == 8
OCF_SET_ADVERTISING_PARAMETERS == 6
OCF_SET_ADVERTISING_DATA == 8
OCF_SET_RESPONSE_DATA == 9
OCF_SET_ADVERTISING_ENABLE == 10
OCF_SET_SCAN_PARAMETERS == 11
OCF_SET_SCAN_ENABLE == 12

\* a | b on u16
RECURSIVE BitOr(_, _)
BitOr(a, b) ==
    IF a = 0 THEN b
    ELSE IF b = 0 THEN a
    ELSE (IF a % 2 = 1 \/ b % 2 = 1 THEN 1 ELSE 0) + 2 * BitOr(a \div 2, b \div 2)

\* a << n on u16 (bits shifted out are lost)
RECURSIVE Shl16(_, _)
Shl16(a, n) == IF n = 0 THEN a % 65536 ELSE Shl16((2 * a) % 65536, n - 1)

\* const fn opcode(ocf, ogf): ocf | ogf << 10
opcode(ocf, ogf) == BitOr(ocf, Shl16(ogf, 10))

\* derive(Size): 0 + size_of of every field, in declaration order
RECURSIVE SizeOfFields(_)
SizeOfFields(widths) ==
    IF widths = <<>> THEN 0
    ELSE SizeOfFields(SubSeq(widths, 1, Len(widths) - 1)) + widths[Len(widths)]

\* size_of the fields of the three command structs
SetAdvertisingParametersCommand_size == SizeOfFields(<<2, 2, 1, 1, 1, 6, 1, 1>>)
SetScanParametersCommand_size == SizeOfFields(<<1, 2, 2, 1, 1>>)
ScanEnableCommand_size == SizeOfFields(<<1, 1>>)

\* a run of `writer.write_*(..);` statements whose Results are dropped:
\* chunks[i] is the byte string the i-th call passes to write_slice
RECURSIVE DroppedWrites(_, _)
DroppedWrites(w, chunks) ==
    IF chunks = <<>> THEN w
    ELSE DroppedWrites(Dropped(Writer_write_slice(w, Head(chunks))), Tail(chunks))

\* the bytes handed to write_u8 / write_u16
U8(v) == u8_to_le_bytes(v)
U16(v) == to_le_bytes(<<v>>)

\* the loop over `data` of the SetAdvertisingData / SetScanResponseData
\* arms, from element i on: [ok |-> FALSE] when `?` leaves the function
RECURSIVE DataLoop(_, _, _, _)
DataLoop(data, i, data_buf, offset) ==
    IF i > Len(data)
    THEN [ok |-> TRUE, data_buf |-> data_buf, offset |-> offset]
    ELSE LET r == AdvertisingData_write_into(
                      data[i], SubSeq(data_buf, offset + 1, Len(data_buf)))
         IN IF ~r.res.some
            THEN [ok |-> FALSE, data_buf |-> data_buf, offset |-> offset]
            ELSE DataLoop(data, i + 1,
                          SubSeq(data_buf, 1, offset) \o r.buf,
                          offset + r.res.val)

\* the arm shared by SetAdvertisingData (ocf 0x08) and SetScanResponseData (0x09)
DataArm(w0, ocf, data) ==
    LET w1 == DroppedWrites(w0, <<U16(opcode(ocf, OGF_LE_CONTROLLER_COMMAND)), U8(32)>>)
        l == DataLoop(data, 1, Pad(31, 0), 0)
    IN IF ~l.ok
       THEN [res |-> None, buf |-> w1.buf]
       ELSE LET w2 == DroppedWrites(w1, <<U8(as_u8(l.offset)), l.data_buf>>)
            IN [res |-> Some(w2.pos), buf |-> w2.buf]

\* the writes of the arms without a loop, after the packet-type byte
FixedArm(c) ==
    CASE c.kind = "Reset" ->
            <<U16(opcode(OCF_RESET, OGF_CONTROL_AND_BASEBAND_COMMAND)), U8(0)>>
      [] c.kind = "SetAdvertisingParameters" ->
            <<U16(opcode(OCF_SET_ADVERTISING_PARAMETERS, OGF_LE_CONTROLLER_COMMAND)),
              U8(as_u8(SetAdvertisingParametersCommand_size)),
              U16(c.interval_min), U16(c.interval_max), U8(c.advertising_type),
              U8(c.own_address_type), U8(c.peer_address_type), c.peer_address,
              U8(c.advertising_channel_map), U8(c.advertising_filter_policy)>>
      [] c.kind = "ScanEnable" ->
            <<U16(opcode(OCF_SET_SCAN_ENABLE, OGF_LE_CONTROLLER_COMMAND)),
              U8(as_u8(ScanEnableCommand_size)),
              U8(c.scan_enable), U8(c.filter_duplicates)>>
      [] c.kind = "SetScanParameters" ->
            <<U16(opcode(OCF_SET_SCAN_PARAMETERS, OGF_LE_CONTROLLER_COMMAND)),
              U8(as_u8(SetScanParametersCommand_size)),
              U8(c.scan_type), U16(c.scan_interval), U16(c.scan_window),
              U8(c.own_address_type), U8(c.scanning_filter_policy)>>
      [] c.kind = "SetAdvertisingEnable" ->
            <<U16(opcode(OCF_SET_ADVERTISING_ENABLE, OGF_LE_CONTROLLER_COMMAND)),
              U8(as_u8(1)), U8(c.enable)>>

\* HCICommand::write_into(self, buf): [res |-> Option<usize>, buf]
HCICommand_write_into(c, buf) ==
    LET w0 == Dropped(Writer_write_u8(Writer_new(buf), HCI_COMMAND_PACKET_TYPE))
    IN CASE c.kind = "SetAdvertisingData" ->
                DataArm(w0, OCF_SET_ADVERTISING_DATA, c.data)
         [] c.kind = "SetScanResponseData" ->
                DataArm(w0, OCF_SET_RESPONSE_DATA, c.data)
         [] OTHER ->
                LET w == DroppedWrites(w0, FixedArm(c))
                IN [res |-> Some(w.pos), buf |-> w.buf]

(***************************************************************************)
(* utils::Reader                                                           *)
(***************************************************************************)
\* uN::from_le_bytes: the limbs, most significant first, of 2n bytes
\* the limbs of the bytes read most significant byte first
from_be_bytes(bytes) ==
    LET n == Len(bytes) \div 2 IN
    [k \in 1..n |-> 256 * bytes[2 * k - 1] + bytes[2 * k]]

from_le_bytes(bytes) ==
    LET n == Len(bytes) \div 2 IN
    [k \in 1..n |-> bytes[2 * (n - k) + 1] + 256 * bytes[2 * (n - k) + 2]]

Reader_new(buf) == [buf |-> buf, pos |-> 0]

Reader_remaining(r) == Len(r.buf) - r.pos

\* a read_slice without the bounds check, reading zeros past the end
Reader_read_slice_unchecked(r, len) ==
    [r |-> [r EXCEPT !.pos = r.pos + len],
     val |-> Some(SubSeq(r.buf \o Pad(r.pos + len, 0), r.pos + 1, r.pos + len))]

\* Reader::read_slice: [r |-> the Reader after, val |-> Option<bytes>]
Reader_read_slice(r, len) ==
    IF Reader_remaining(r) < len
    THEN [r |-> r, val |-> None]
    ELSE [r |-> [r EXCEPT !.pos = r.pos + len],
          val |-> Some(SubSeq(r.buf, r.pos + 1, r.pos + len))]

\* Reader::read_u8: val is Option<u8>
Reader_read_u8(r) ==
    LET s == Reader_read_slice(r, 1)
    IN IF s.val.some THEN [r |-> s.r, val |-> Some(s.val.val[1])] ELSE s

\* Reader::read_u16 / read_u32: val is Option<limbs>
Reader_read_u16(r) ==
    LET s == Reader_read_slice(r, 2)
    IN IF s.val.some THEN [r |-> s.r, val |-> Some(from_le_bytes(s.val.val))] ELSE s

Reader_read_u32(r) ==
    LET s == Reader_read_slice(r, 4)
    IN IF s.val.some THEN [r |-> s.r, val |-> Some(from_le_bytes(s.val.val))] ELSE s

Reader_read_u64(r) ==
    LET s == Reader_read_slice(r, 8)
    IN IF s.val.some THEN [r |-> s.r, val |-> Some(from_le_bytes(s.val.val))] ELSE s

Reader_read_u128(r) ==
    LET s == Reader_read_slice(r, 16)
    IN IF s.val.some THEN [r |-> s.r, val |-> Some(from_le_bytes(s.val.val))] ELSE s

\* a seek that moves the cursor wherever it is told
Reader_seek_unchecked(r, pos) == [r |-> [r EXCEPT !.pos = pos], panic |-> FALSE]

\* Reader::seek: [r |-> the Reader after, panic |-> whether it panicked]
Reader_seek(r, pos) ==
    IF pos > Len(r.buf)
    THEN [r |-> r, panic |-> TRUE]
    ELSE [r |-> [r EXCEPT !.pos = pos], panic |-> FALSE]

(***************************************************************************)
(* hci::event  AdvertisingDataType (FromU8) and AdvertisingDataIterator    *)
(***************************************************************************)
\* the variants of event.rs's AdvertisingDataType, by discriminant
EventAdvertisingDataType ==
    [x \in {1, 2, 3, 4, 5, 6, 7, 8, 9, 10, 13, 18, 22, 25, 255} |->
        CASE x = 1 -> "Flags"
          [] x = 2 -> "IncompleteListOf16BitServiceUUIDs"
          [] x = 3 -> "CompleteListOf16BitServiceUUIDs"
          [] x = 4 -> "IncompleteListOf32BitServiceUUIDs"
          [] x = 5 -> "CompleteListOf32BitServiceUUIDs"
          [] x = 6 -> "IncompleteListOf128BitServiceUUIDs"
          [] x = 7 -> "CompleteListOf128BitServiceUUIDs"
          [] x = 8 -> "ShortenedLocalName"
          [] x = 9 -> "CompleteLocalName"
          [] x = 10 -> "TxPowerLevel"
          [] x = 13 -> "ClassOfDevice"
          [] x = 18 -> "PeripheralConnectionIntervalRange"
          [] x = 22 -> "ServiceData"
          [] x = 25 -> "Appearance"
          [] x = 255 -> "ManufacturerSpecificData"]

\* derive(FromU8): Some(variant), or None where the generated match panics
AdvertisingDataType_from(value) ==
    IF value \in DOMAIN EventAdvertisingDataType
    THEN Some(EventAdvertisingDataType[value])
    ELSE None

\* `x as i8` of a u8
\* a cast that keeps the byte unsigned
as_i8_unsigned(x) == x

as_i8(x) == IF x >= 128 THEN x - 256 ELSE x

\* core::str::from_utf8(bytes).is_ok()
RECURSIVE Utf8Valid(_)
Utf8Valid(b) ==
    LET Cont(i) == i <= Len(b) /\ b[i] >= 128 /\ b[i] <= 191
        In(i, lo, hi) == i <= Len(b) /\ b[i] >= lo /\ b[i] <= hi
        Rest(k) == Utf8Valid(SubSeq(b, k + 1, Len(b)))
    IN
    IF Len(b) = 0 THEN TRUE
    ELSE IF b[1] <= 127 THEN Rest(1)
    ELSE IF b[1] >= 194 /\ b[1] <= 223 THEN Cont(2) /\ Rest(2)
    ELSE IF b[1] = 224 THEN In(2, 160, 191) /\ Cont(3) /\ Rest(3)
    ELSE IF (b[1] >= 225 /\ b[1] <= 236) \/ b[1] \in {238, 239}
         THEN Cont(2) /\ Cont(3) /\ Rest(3)
    ELSE IF b[1] = 237 THEN In(2, 128, 159) /\ Cont(3) /\ Rest(3)
    ELSE IF b[1] = 240 THEN In(2, 144, 191) /\ Cont(3) /\ Cont(4) /\ Rest(4)
    ELSE IF b[1] >= 241 /\ b[1] <= 243 THEN Cont(2) /\ Cont(3) /\ Cont(4) /\ Rest(4)
    ELSE IF b[1] = 244 THEN In(2, 128, 143) /\ Cont(3) /\ Cont(4) /\ Rest(4)
    ELSE FALSE

\* the elements of a &[uN] made by slice::from_raw_parts over `data`, as the
\* little-endian target reads them: k limbs per element, in list order
Reinterpret(data, k) ==
    LET n == Len(data) \div (2 * k) IN
    [i \in 1..(n * k) |->
        LET e == (i - 1) \div k
            j == ((i - 1) % k) + 1
        IN from_le_bytes(SubSeq(data, e * 2 * k + 1, e * 2 * k + 2 * k))[j]]

\* outcomes of ByteSliceAs::as_u16_slice / as_u32_slice / as_u128_slice for
\* `data` at address addr (mod 16): {None} when the length is no multiple of
\* the element size; otherwise the reinterpreted slice, and when the address
\* is not aligned for the element type (undefined behaviour of
\* from_raw_parts) also "UB": a trap or any other misbehaviour
as_uN_slice(data, k, addr) ==
    IF Len(data) % (2 * k) # 0
    THEN {[kind |-> "None", val |-> <<>>]}
    ELSE {[kind |-> "Some", val |-> Reinterpret(data, k)]}
         \cup (IF addr % (2 * k) # 0 THEN {[kind |-> "UB", val |-> <<>>]} ELSE {})

\* outcomes of a call of next()
OutNone == [kind |-> "None", variant |-> "", val |-> <<>>]
OutPanic == [kind |-> "Panic", variant |-> "", val |-> <<>>]
OutUB == [kind |-> "UB", variant |-> "", val |-> <<>>]
OutSome(variant, val) == [kind |-> "Some", variant |-> variant, val |-> val]

\* the match on ad_type of next(): the set of possible outcomes for the
\* payload `data` found at address addr
NextMatch(ad_type, data, addr) ==
    LET k == UuidLimbs(ad_type)
        reader == Reader_new(data)
    IN
    CASE ad_type = "Flags" ->
            IF Len(data) = 0 THEN {OutPanic} ELSE {OutSome(ad_type, <<data[1]>>)}
      [] k > 0 ->
            {IF s.kind = "Some" THEN OutSome(ad_type, s.val)
             ELSE IF s.kind = "UB" THEN OutUB ELSE OutNone :
                s \in as_uN_slice(data, k, addr)}
      [] ad_type \in {"ShortenedLocalName", "CompleteLocalName"} ->
            IF Utf8Valid(data) THEN {OutSome(ad_type, data)} ELSE {OutNone}
      [] ad_type = "TxPowerLevel" ->
            LET v == Reader_read_u8(reader).val
            IN IF v.some THEN {OutSome(ad_type, <<as_i8(v.val)>>)} ELSE {OutNone}
      [] ad_type = "ClassOfDevice" ->
            LET v == Reader_read_u32(reader).val
            IN IF v.some THEN {OutSome(ad_type, v.val)} ELSE {OutNone}
      [] ad_type = "Appearance" ->
            LET v == Reader_read_u16(reader).val
            IN IF v.some THEN {OutSome(ad_type, v.val)} ELSE {OutNone}
      [] ad_type \in {"PeripheralConnectionIntervalRange", "ServiceData",
                      "ManufacturerSpecificData"} ->
            {OutSome(ad_type, data)}

\* AdvertisingDataIterator::next on it = [reader, base]: the set of possible
\* [it |-> the iterator after, out |-> outcome].  base is the address of the
\* iterated bytes modulo 16.  `len as usize - 1` with len = 0 panics when
\* overflow checks are compiled in and wraps to usize::MAX otherwise, where
\* read_slice then returns None.
AdvertisingDataIterator_next(it) ==
    IF Reader_remaining(it.reader) = 0
    THEN {[it |-> it, out |-> OutNone]}
    ELSE
    LET r1 == Reader_read_u8(it.reader)
        len == r1.val.val
        r2 == Reader_read_u8(r1.r)
        ad_type == AdvertisingDataType_from(r2.val.val)
        r3 == Reader_read_slice(r2.r, len - 1)
        at(r) == [it EXCEPT !.reader = r]
    IN
    IF ~r2.val.some THEN {[it |-> at(r2.r), out |-> OutNone]}
    ELSE IF ~ad_type.some THEN {[it |-> at(r2.r), out |-> OutPanic]}
    ELSE IF len = 0
         THEN {[it |-> at(r2.r), out |-> OutPanic], [it |-> at(r2.r), out |-> OutNone]}
    ELSE IF ~r3.val.some THEN {[it |-> at(r3.r), out |-> OutNone]}
    ELSE {[it |-> at(r3.r), out |-> o] :
            o \in NextMatch(ad_type.val, r3.val.val, (it.base + r2.r.pos) % 16)}

(***************************************************************************)
(* hci::packet  HCIPacket::from_buf and the packet constructors            *)
(***************************************************************************)
HCI_ACL_DATA_PACKET_TYPE == 2
HCI_SYNCHRONOUS_DATA_PACKET_TYPE == 3
HCI_EVENT_PACKET_TYPE == 4
HCI_ISO_DATA_PACKET_TYPE == 5
HCI_EVENT_MAX_PARAMETERS_SIZE == 255
HCI_COMMAND_MAX_PARAMETERS_SIZE == 255
HCI_ACL_DATA_MAX_DATA_LENGTH == 27

\* a & b on u16
RECURSIVE BitAnd(_, _)
BitAnd(a, b) ==
    IF a = 0 \/ b = 0 THEN 0
    ELSE (IF a % 2 = 1 /\ b % 2 = 1 THEN 1 ELSE 0) + 2 * BitAnd(a \div 2, b \div 2)

\* a >> n
RECURSIVE Shr(_, _)
Shr(a, n) == IF n = 0 THEN a ELSE Shr(a \div 2, n - 1)

\* let mut array = [0; size]; array[..len].copy_from_slice(buf): the
\* range panics when len > size, copy_from_slice when the lengths differ
CopyFromSlice(size, len, buf) ==
    IF len > size \/ Len(buf) # len
    THEN [panic |-> TRUE, array |-> <<>>]
    ELSE [panic |-> FALSE, array |-> [i \in 1..size |-> IF i <= len THEN buf[i] ELSE 0]]

\* a packet value, or what from_buf did instead of returning one.  kind is
\* "Command" | "ACLData" | "Event" | "None" | "Panic"; code is the opcode,
\* the event code or the handle; pb and bc are the ACL flags
Packet(kind, code, pb, bc, len, data) ==
    [kind |-> kind, code |-> code, pb |-> pb, bc |-> bc, len |-> len, data |-> data]

PktNone == Packet("None", 0, 0, 0, 0, <<>>)
PktPanic == Packet("Panic", 0, 0, 0, 0, <<>>)

HCICommandPacket_new(opcode_, len, buf) ==
    LET c == CopyFromSlice(HCI_COMMAND_MAX_PARAMETERS_SIZE, len, buf)
    IN IF c.panic THEN PktPanic ELSE Packet("Command", opcode_, 0, 0, len, c.array)

HCIEventPacket_new(evcode, len, buf) ==
    LET c == CopyFromSlice(HCI_EVENT_MAX_PARAMETERS_SIZE, len, buf)
    IN IF c.panic THEN PktPanic ELSE Packet("Event", evcode, 0, 0, len, c.array)

HCIACLDataPacket_new(handle, packet_boundary_flag, broadcast_flag, len, buf) ==
    LET c == CopyFromSlice(HCI_ACL_DATA_MAX_DATA_LENGTH, len, buf)
    IN IF c.panic THEN PktPanic
       ELSE Packet("ACLData", handle, packet_boundary_flag, broadcast_flag, len, c.array)

\* a Command arm that takes every remaining byte as parameters
FromBufCommand_rest(r) ==
    LET op == Reader_read_u16(r)
        len == Reader_read_u8(op.r)
        data == Reader_read_slice(len.r, Reader_remaining(len.r))
    IN IF ~op.val.some THEN PktNone
       ELSE IF ~len.val.some THEN PktNone
       ELSE HCICommandPacket_new(op.val.val[1], Len(data.val.val), data.val.val)

\* the arms of from_buf that build a packet; r is the Reader behind the
\* packet type byte
FromBufCommand(r) ==
    LET op == Reader_read_u16(r)
        len == Reader_read_u8(op.r)
        data == Reader_read_slice(len.r, len.val.val)
    IN IF ~op.val.some THEN PktNone
       ELSE IF ~len.val.some THEN PktNone
       ELSE IF ~data.val.some THEN PktNone
       ELSE HCICommandPacket_new(op.val.val[1], len.val.val, data.val.val)

FromBufACLData(r) ==
    LET header == Reader_read_u16(r)
        handle == Shr(BitAnd(header.val.val[1], 65520), 4)
        flags == BitAnd(header.val.val[1], 15) % 256
        packet_boundary_flag == Shr(BitAnd(flags, 12), 2)
        broadcast_flag == BitAnd(flags, 3)
        len == Reader_read_u16(header.r)
        data == Reader_read_slice(len.r, len.val.val[1])
    IN IF ~header.val.some THEN PktNone
       ELSE IF ~len.val.some THEN PktNone
       ELSE IF ~data.val.some THEN PktNone
       ELSE HCIACLDataPacket_new(handle, packet_boundary_flag, broadcast_flag,
                                 len.val.val[1], data.val.val)

FromBufEvent(r) ==
    LET evcode == Reader_read_u8(r)
        len == Reader_read_u8(evcode.r)
        data == Reader_read_slice(len.r, len.val.val)
    IN IF ~evcode.val.some THEN PktNone
       ELSE IF ~len.val.some THEN PktNone
       ELSE IF ~data.val.some THEN PktNone
       ELSE HCIEventPacket_new(evcode.val.val, len.val.val, data.val.val)

\* HCIPacket::from_buf: [pkt |-> the value returned (PktNone for None) or
\* PktPanic, warn |-> the log::warn! line written, <<>> for none]
HCIPacket_from_buf(buf) ==
    LET packet_type == Reader_read_u8(Reader_new(buf))
        t == packet_type.val.val
    IN IF ~packet_type.val.some THEN [pkt |-> PktNone, warn |-> <<>>]
       ELSE CASE t = HCI_COMMAND_PACKET_TYPE ->
                    [pkt |-> FromBufCommand(packet_type.r), warn |-> <<>>]
              [] t = HCI_ACL_DATA_PACKET_TYPE ->
                    [pkt |-> FromBufACLData(packet_type.r), warn |-> <<>>]
              [] t = HCI_SYNCHRONOUS_DATA_PACKET_TYPE ->
                    [pkt |-> PktNone,
                     warn |-> <<"Synchonous data packet type not implemented yet">>]
              [] t = HCI_EVENT_PACKET_TYPE ->
                    [pkt |-> FromBufEvent(packet_type.r), warn |-> <<>>]
              [] t = HCI_ISO_DATA_PACKET_TYPE ->
                    [pkt |-> PktNone, warn |-> <<"ISO data packet type not implemented yet">>]
              [] OTHER ->
                    [pkt |-> PktNone, warn |-> <<"Unknown HCI packet type: {}", t>>]

(***************************************************************************)
(* hci::event  HCIEvent::from_packet                                       *)
(***************************************************************************)
\* derive(FromU8) on HCIEventCode: None where the generated match panics
HCIEventCode_from(value) ==
    IF value = 14 THEN Some("CommandComplete")
    ELSE IF value = 62 THEN Some("LEMetaEvent")
    ELSE None

\* the discriminants of SubeventCode
SubeventCodes == (1..35) \cup (38..53)

\* a conversion that takes every known sub-event for an advertising report
SubeventCode_from_any(value) ==
    IF value \in SubeventCodes THEN Some("AdvertisingReport") ELSE None

\* derive(FromU8) on SubeventCode: None where the generated match panics
SubeventCode_from(value) ==
    IF value \in SubeventCodes
    THEN Some(IF value = 2 THEN "AdvertisingReport" ELSE "Other")
    ELSE None

\* an event value, or what from_packet did instead of returning one.  kind
\* is "CommandComplete" | "AdvertisingReport" | "None" | "Panic"; num is
\* num_hci_command_packets or num_reports; data is return_parameters or
\* the bytes under the AdvertisingReportIterator's reader
Event(kind, why, num, command_opcode, data) ==
    [kind |-> kind, why |-> why, num |-> num, command_opcode |-> command_opcode,
     data |-> data]

EvtNone == Event("None", "", 0, 0, <<>>)
EvtPanic(why) == Event("Panic", why, 0, 0, <<>>)

\* a read of everything left under the reader, padding included
ReadRest_to_end(reader, len) ==
    {[panic |-> FALSE, val |-> Reader_read_slice(reader, Reader_remaining(reader)).val]}

\* reader.read_slice(packet.len - reader.pos): the subtraction on usize
\* underflows when len < pos: a panic where overflow checks are compiled
\* in; otherwise it wraps to a length near usize::MAX, more than remain,
\* and read_slice returns None.  The set of possible [panic, val].
ReadRest(reader, len) ==
    IF len < reader.pos
    THEN {[panic |-> TRUE, val |-> None], [panic |-> FALSE, val |-> None]}
    ELSE {[panic |-> FALSE, val |-> Reader_read_slice(reader, len - reader.pos).val]}

\* HCIEvent::from_packet: the set of possible outcomes
HCIEvent_from_packet(packet) ==
    LET reader == Reader_new(packet.data)
        evcode == HCIEventCode_from(packet.code)
    IN
    IF ~evcode.some THEN {EvtPanic("Invalid value")}
    ELSE IF evcode.val = "CommandComplete" THEN
        LET n == Reader_read_u8(reader)
            op == Reader_read_u16(n.r)
        IN IF ~n.val.some THEN {EvtNone}
           ELSE IF ~op.val.some THEN {EvtNone}
           ELSE {IF s.panic THEN EvtPanic("overflow")
                 ELSE IF ~s.val.some THEN EvtNone
                 ELSE Event("CommandComplete", "", n.val.val, op.val.val[1], s.val.val) :
                    s \in ReadRest(op.r, packet.len)}
    ELSE
        LET sub == Reader_read_u8(reader)
            code == SubeventCode_from(sub.val.val)
            num_reports == Reader_read_u8(sub.r)
        IN IF ~sub.val.some THEN {EvtNone}
           ELSE IF ~code.some THEN {EvtPanic("Invalid value")}
           ELSE IF code.val # "AdvertisingReport" THEN {EvtPanic("not implemented")}
           ELSE IF ~num_reports.val.some THEN {EvtNone}
           ELSE {IF s.panic THEN EvtPanic("overflow")
                 ELSE IF ~s.val.some THEN EvtNone
                 ELSE Event("AdvertisingReport", "", num_reports.val.val, 0, s.val.val) :
                    s \in ReadRest(num_reports.r, packet.len)}

(***************************************************************************)
(* hci::event  AdvertisingReportIterator                                   *)
(***************************************************************************)
\* what a call of AdvertisingReportIterator::next returned: kind is "Some"
\* or "None"; data is the bytes under the report's AdvertisingDataIterator
Report(kind, event_type, address_type, address, data, rssi) ==
    [kind |-> kind, event_type |-> event_type, address_type |-> address_type,
     address |-> address, data |-> data, rssi |-> rssi]

RepNone == Report("None", 0, 0, <<>>, <<>>, 0)

\* AdvertisingReportIterator::next on it = [num_reports, reader]:
\* [it |-> the iterator after, out |-> what was returned].  Every `?`
\* returns None with the cursor where the successful reads left it.
AdvertisingReportIterator_next(it) ==
    LET event_type == Reader_read_u8(it.reader)
        address_type == Reader_read_u8(event_type.r)
        address == Reader_read_slice(address_type.r, 6)
        len == Reader_read_u8(address.r)
        data == Reader_read_slice(len.r, len.val.val)
        rssi == Reader_read_u8(data.r)
        at(r) == [it EXCEPT !.reader = r]
    IN
    IF Reader_remaining(it.reader) = 0 THEN [it |-> it, out |-> RepNone]
    ELSE IF ~event_type.val.some THEN [it |-> at(event_type.r), out |-> RepNone]
    ELSE IF ~address_type.val.some THEN [it |-> at(address_type.r), out |-> RepNone]
    ELSE IF ~address.val.some THEN [it |-> at(address.r), out |-> RepNone]
    ELSE IF ~len.val.some THEN [it |-> at(len.r), out |-> RepNone]
    ELSE IF ~data.val.some THEN [it |-> at(data.r), out |-> RepNone]
    ELSE IF ~rssi.val.some THEN [it |-> at(rssi.r), out |-> RepNone]
    ELSE [it |-> at(rssi.r),
          out |-> Report("Some", event_type.val.val, address_type.val.val,
                         address.val.val, data.val.val, as_i8(rssi.val.val))]

(***************************************************************************)
(* ble::packet (the crate's older packet module) and ble::Ble              *)
(***************************************************************************)
\* the constants of packet.rs, which has its own copies
packet_HCI_COMMAND_PACKET_TYPE == 1
packet_OGF_CONTROL_AND_BASEBAND_COMMAND == 3
packet_OCF_RESET == 3
packet_OGF_LE_CONTROLLER_COMMAND == 8
packet_OCF_SET_SCAN_PARAMETERS == 11
packet_OCF_SET_SCAN_ENABLE == 12

HCI_RESET_COMMAND ==
    BitOr(packet_OCF_RESET, Shl16(packet_OGF_CONTROL_AND_BASEBAND_COMMAND, 10))

HCI_SET_SCAN_ENABLE_COMMAND ==
    BitOr(packet_OCF_SET_SCAN_ENABLE, Shl16(packet_OGF_LE_CONTROLLER_COMMAND, 10))

HCI_SET_SCAN_PARAMETERS_COMMAND ==
    BitOr(packet_OCF_SET_SCAN_PARAMETERS, Shl16(packet_OGF_LE_CONTROLLER_COMMAND, 10))

HCICommandPacket(opcode_, parameters) == [opcode |-> opcode_, parameters |-> parameters]

\* HCIPacket::write_to_buffer, HCICommandPacket arm: the buffer after and
\* the Ok(writer.pos) returned; the Results of the writes are dropped
write_to_buffer(packet, buf) ==
    LET w0 == Writer_new(buf)
        w1 == Dropped(Writer_write_u8(w0, packet_HCI_COMMAND_PACKET_TYPE))
        w2 == Dropped(Writer_write_u16(w1, <<packet.opcode>>))
        w3 == Dropped(Writer_write_u8(w2, Len(packet.parameters) % 256))
        w4 == Dropped(Writer_write_slice(w3, packet.parameters))
    IN [buf |-> w4.buf, len |-> w4.pos]

\* size of Ble::buf
BLE_BUF_SIZE == 1000

\* the packets the three methods of Ble build
Ble_reset_packet == HCICommandPacket(HCI_RESET_COMMAND, <<>>)

Ble_set_le_scan_enable_packet == HCICommandPacket(HCI_SET_SCAN_ENABLE_COMMAND, <<1, 0>>)

Ble_set_le_scan_parameters_packet ==
    HCICommandPacket(HCI_SET_SCAN_ENABLE_COMMAND, <<1, 16, 0, 16, 0, 0, 0>>)

(***************************************************************************)
(* state::State: a u16 holding 12 button bits and a 4-bit clock cycle      *)
(***************************************************************************)
B_OFFSET == 0
Y_OFFSET == 1
SELECT_OFFSET == 2
START_OFFSET == 3
UP_OFFSET == 4
DOWN_OFFSET == 5
LEFT_OFFSET == 6
RIGHT_OFFSET == 7
A_OFFSET == 8
X_OFFSET == 9
L_OFFSET == 10
R_OFFSET == 11
CYCLE_OFFSET == 12
CYCLE_LEN == 4

\* State::default().value
State_default == 4095

\* !a on u16
Not16(a) == 65535 - a

\* a read that shifts the field down without masking it
State_read_unmasked(value, len, offset) == Shr(value, offset)

\* State::read: self.value >> offset << (N - len) >> (N - len), N = 16
State_read(value, len, offset) ==
    Shr(Shl16(Shr(value, offset), 16 - len), 16 - len)

State_cycle(value) == State_read(value, CYCLE_LEN, CYCLE_OFFSET)

State_read_bit(value, offset) == State_read(value, 1, offset) = 1

\* a write that sets the new bits without clearing the field first
State_write_no_clear(self, value, len, offset) ==
    BitOr(self, Shl16(BitAnd(value, Shr(65535, 16 - len)), offset))

\* State::write: the value of self.value after
State_write(self, value, len, offset) ==
    LET mask == Shr(65535, 16 - len)
        masked == BitAnd(value, mask)
        cleared == BitAnd(self, Not16(Shl16(mask, offset)))
    IN BitOr(cleared, Shl16(masked, offset))

State_set_cycle(self, value) == State_write(self, value, CYCLE_LEN, CYCLE_OFFSET)

\* State::write_bit; value.into() is 1 for true and 0 for false
State_write_bit(self, value, offset) ==
    State_write(self, IF value THEN 1 ELSE 0, 1, offset)

State_reset_cycle(self) == State_set_cycle(self, 0)

\* State::next: [value |-> self.value after, ret |-> the bool returned]
State_next(self) ==
    LET cycle == State_cycle(self)
        after == State_set_cycle(self, cycle + 1)
    IN [value |-> after,
        ret |-> IF cycle < 12 THEN State_read_bit(after, cycle) ELSE TRUE]

(***************************************************************************)
(* The state of each component before its run starts.  Every run          *)
(* exercises one component and leaves the others idle.                     *)
(***************************************************************************)
AD(variant, val) == [variant |-> variant, val |-> val]

NoIter == [reader |-> Reader_new(<<>>), base |-> 0]

IdleAd ==
    /\ ad_pc = "idle"
    /\ ad_in = [ad |-> AD("", <<>>), cap |-> 0, fill |-> 0]
    /\ ad_out = [res |-> None, buf |-> <<>>]
    /\ adit = NoIter
    /\ adit_out = <<>>

IdleWriter ==
    /\ writer = Writer_new(<<>>)
    /\ wcall = [op |-> "none", bytes |-> <<>>, pre |-> Writer_new(<<>>), res |-> "Ok"]
    /\ wcount = 0

IdleCmd ==
    /\ cmd_pc = "idle"
    /\ cmd_in = [cmd |-> [kind |-> ""], cap |-> 0, fill |-> 0]
    /\ cmd_out = [res |-> None, buf |-> <<>>]

IdlePkt ==
    /\ pkt_pc = "idle"
    /\ pkt_in = <<>>
    /\ pkt_out = [pkt |-> PktNone, warn |-> <<>>]
    /\ evt_out = EvtNone
    /\ rep_it = [num_reports |-> 0, reader |-> Reader_new(<<>>)]
    /\ rep_out = <<>>

IdleReader ==
    /\ rd = Reader_new(<<>>)
    /\ rd_call = [op |-> "none", arg |-> 0, pre |-> Reader_new(<<>>), res |-> None,
                  panic |-> FALSE]
    /\ rd_count = 0

IdleBle ==
    /\ ble_buf = <<>>
    /\ ble_sent = <<>>

IdleState ==
    /\ st_value = 0
    /\ st_call = [op |-> "none", arg |-> FALSE, pre |-> 0, ret |-> FALSE]
    /\ st_n = 0
    /\ st_base = 0
    /\ st_sets = 0

(***************************************************************************)
(* Advertising Data codec runs: one AdvertisingData value is encoded into  *)
(* a caller's buffer; the bytes buf[..n] it reports are then iterated.     *)
(***************************************************************************)
\* largest ordinary capacity of the buffer given to write_into
MaxAdBuf == 34
\* length of the long payload (its record length does not fit a u8)
LongPayload == 255
\* calls of next() made on one iterator
MaxNext == 4

\* "A" = 65, "B" = 66, ...
AdSamples == <<
    AD("Flags", <<6>>),
    AD("IncompleteListOf16BitServiceUUIDs", <<>>),
    AD("CompleteListOf16BitServiceUUIDs", <<6159, 6154, 6162, 65194>>),
    AD("IncompleteListOf32BitServiceUUIDs", <<4660, 22136>>),
    AD("CompleteListOf32BitServiceUUIDs", <<57005, 48879, 1, 2>>),
    AD("IncompleteListOf128BitServiceUUIDs", <<258, 772, 1286, 1800, 2314, 2828, 3342, 65535>>),
    AD("CompleteListOf128BitServiceUUIDs", <<61453, 0, 4096, 32768, 128, 24475, 13563, 64251>>),
    AD("ShortenedLocalName", <<65, 66>>),
    AD("CompleteLocalName", <<65, 66, 67, 68>>),
    AD("TxPowerLevel", <<-4>>),
    AD("ClassOfDevice", <<36, 1028>>),
    AD("PeripheralConnectionIntervalRange", <<6, 0, 128, 12>>),
    AD("ServiceData", <<15, 24, 100>>),
    AD("Appearance", <<961>>),
    AD("LEBluetoothDeviceAddress", <<1, 2, 3, 4, 5, 6, 0>>),
    AD("ManufacturerSpecificData", <<>>),
    AD("ManufacturerSpecificData", <<76, 0, 2>>),
    AD("CompleteLocalName", Pad(29, 65)),
    AD("CompleteLocalName", Pad(26, 66)),
    AD("ShortenedLocalName", Pad(30, 67)),
    AD("PeripheralConnectionIntervalRange", Pad(LongPayload, 170)) >>

\* capacities of the buffer given to write_into
AdCaps == (0..MaxAdBuf) \cup {LongPayload + 2, LongPayload + 3}

\* addresses (mod 16) of the iterated bytes
BaseAddrs == {0, 1, 2, 6, 14}

InitAd == IdleWriter /\ IdleAd /\ IdleCmd /\ IdlePkt /\ IdleReader /\ IdleBle /\ IdleState

\* data.write_into(&mut buf) on a buffer of cap bytes
AdEncode ==
    /\ ad_pc = "idle"
    /\ \E i \in 1..Len(AdSamples), cap \in AdCaps, fill \in FillBytes :
        /\ ad_in' = [ad |-> AdSamples[i], cap |-> cap, fill |-> fill]
        /\ ad_out' = AdvertisingData_write_into(AdSamples[i], Pad(cap, fill))
    /\ ad_pc' = "encoded"
    /\ UNCHANGED <<adit, adit_out, wvars, cmdvars, pktvars, rdvars, blevars, stvars>>

\* AdvertisingDataIterator { reader: Reader::new(&buf[..n]) } over the n
\* bytes write_into reported
AdIterEncoded ==
    /\ ad_pc = "encoded"
    /\ ad_out.res.some
    /\ \E base \in BaseAddrs :
        adit' = [reader |-> Reader_new(SubSeq(ad_out.buf, 1, ad_out.res.val)),
                 base |-> base]
    /\ adit_out' = <<>>
    /\ ad_pc' = "iterating"
    /\ UNCHANGED <<ad_in, ad_out, wvars, cmdvars, pktvars, rdvars, blevars, stvars>>

\* byte sequences handed to an AdvertisingDataIterator as received data
RawSamples == <<
    <<>>,
    <<2, 1, 6>>,
    <<5, 9, 65, 66, 67, 68>>,
    <<3, 2, 15, 24>>,
    <<5, 3, 15, 24, 10, 24>>,
    <<5, 4, 120, 86, 52, 18>>,
    <<9, 5, 239, 190, 173, 222, 2, 0, 1, 0>>,
    <<17, 6, 255, 255, 14, 13, 12, 11, 10, 9, 8, 7, 6, 5, 4, 3, 2, 1>>,
    <<17, 7, 251, 250, 251, 52, 155, 95, 128, 0, 0, 128, 0, 16, 0, 0, 13, 240>>,
    <<3, 8, 65, 66>>,
    <<2, 10, 252>>,
    <<5, 13, 4, 4, 36, 0>>,
    <<5, 18, 6, 0, 128, 12>>,
    <<4, 22, 15, 24, 100>>,
    <<3, 25, 193, 3>>,
    <<8, 27, 1, 2, 3, 4, 5, 6, 0>>,
    <<1, 255>>,
    <<4, 255, 76, 0, 2>>,
    <<2, 0, 1>>,
    <<2, 11, 0>>,
    <<2, 11, 0, 2, 1, 6>>,
    <<3, 42, 1, 2, 2, 10, 252>>,
    <<0>>,
    <<0, 1>>,
    <<0, 1, 6>>,
    <<1, 1>>,
    <<1, 10>>,
    <<1, 13>>,
    <<3, 13, 1, 2>>,
    <<1, 25>>,
    <<2, 25, 1>>,
    <<5, 9, 65>>,
    <<2>>,
    <<2, 1, 6, 0, 9>>,
    <<3, 9, 195, 40>>,
    <<4, 2, 1, 2, 3>>,
    <<4, 4, 1, 2, 3>>,
    <<6, 5, 1, 2, 3, 4, 5>>,
    <<3, 6, 1, 2>>,
    <<16, 7, 1, 2, 3, 4, 5, 6, 7, 8, 9, 10, 11, 12, 13, 14, 15>>,
    <<1, 2>>,
    <<2, 1, 6, 5, 9, 65, 66, 67, 68>>,
    <<2, 1, 6, 3, 25, 193, 3, 2, 10, 252>>,
    <<2, 1, 6, 3, 3, 15, 24, 4, 255, 76, 0, 2>>,
    <<3, 8, 65, 66, 5, 4, 120, 86, 52, 18>>,
    <<2, 1, 6, 8, 27, 1, 2, 3, 4, 5, 6, 0>>,
    <<2, 10, 252, 4, 22, 15, 24, 100, 1, 255>> >>

\* AdvertisingDataIterator { reader: Reader::new(bytes) } over received bytes
AdIterBytes ==
    /\ ad_pc = "idle"
    /\ \E i \in 1..Len(RawSamples), base \in BaseAddrs :
        adit' = [reader |-> Reader_new(RawSamples[i]), base |-> base]
    /\ adit_out' = <<>>
    /\ ad_pc' = "decoding"
    /\ UNCHANGED <<ad_in, ad_out, wvars, cmdvars, pktvars, rdvars, blevars, stvars>>

\* iter.next(); a panic or undefined behaviour ends the run
AdIterNext ==
    /\ ad_pc \in {"iterating", "decoding"}
    /\ Len(adit_out) < MaxNext
    /\ \A i \in 1..Len(adit_out) : adit_out[i].kind \in {"Some", "None"}
    /\ \E r \in AdvertisingDataIterator_next(adit) :
        /\ adit' = r.it
        /\ adit_out' = Append(adit_out, r.out)
    /\ UNCHANGED <<ad_pc, ad_in, ad_out, wvars, cmdvars, pktvars, rdvars, blevars, stvars>>

NextAd ==
    \/ AdEncode
    \/ AdIterEncoded
    \/ AdIterBytes
    \/ AdIterNext

SpecAd == InitAd /\ [][NextAd]_vars

(***************************************************************************)
(* Command encoder runs: one HCICommand is written into a caller's buffer. *)
(***************************************************************************)
\* largest capacity of the buffer given to HCICommand::write_into
MaxCmdBuf == 38

\* the AdvertisingData lists given to SetAdvertisingData / SetScanResponseData,
\* as indices into AdSamples
DataSamples == <<
    <<>>, <<1>>, <<9>>, <<1, 9>>, <<1, 3, 10>>, <<3, 4, 11>>, <<6>>, <<12>>,
    <<13>>, <<14>>, <<15>>, <<17>>, <<1, 17>>,
    <<18>>, <<1, 19>>, <<20>>, <<1, 18>>, <<6, 7>>, <<21>> >>

DataOf(ixs) == [j \in 1..Len(ixs) |-> AdSamples[ixs[j]]]

FixedCommandSamples == <<
    [kind |-> "Reset"],
    [kind |-> "SetAdvertisingParameters", interval_min |-> 2048, interval_max |-> 16384,
     advertising_type |-> 0, own_address_type |-> 1, peer_address_type |-> 0,
     peer_address |-> <<17, 34, 51, 68, 85, 102>>,
     advertising_channel_map |-> 7, advertising_filter_policy |-> 0],
    [kind |-> "SetAdvertisingParameters", interval_min |-> 32, interval_max |-> 65535,
     advertising_type |-> 3, own_address_type |-> 0, peer_address_type |-> 1,
     peer_address |-> <<255, 0, 255, 0, 255, 0>>,
     advertising_channel_map |-> 1, advertising_filter_policy |-> 3],
    [kind |-> "SetAdvertisingEnable", enable |-> 0],
    [kind |-> "SetAdvertisingEnable", enable |-> 1],
    [kind |-> "SetScanParameters", scan_type |-> 1, scan_interval |-> 16,
     scan_window |-> 16, own_address_type |-> 0, scanning_filter_policy |-> 0],
    [kind |-> "SetScanParameters", scan_type |-> 0, scan_interval |-> 16384,
     scan_window |-> 4660, own_address_type |-> 1, scanning_filter_policy |-> 2],
    [kind |-> "ScanEnable", scan_enable |-> 1, filter_duplicates |-> 1],
    [kind |-> "ScanEnable", scan_enable |-> 0, filter_duplicates |-> 0],
    [kind |-> "ScanEnable", scan_enable |-> 1, filter_duplicates |-> 0] >>

InitCmd == IdleWriter /\ IdleAd /\ IdleCmd /\ IdlePkt /\ IdleReader /\ IdleBle /\ IdleState

\* command.write_into(&mut buf) on a buffer of cap bytes
CmdEncoded(c, cap, fill) ==
    /\ cmd_pc = "idle"
    /\ cmd_in' = [cmd |-> c, cap |-> cap, fill |-> fill]
    /\ cmd_out' = HCICommand_write_into(c, Pad(cap, fill))
    /\ cmd_pc' = "done"
    /\ UNCHANGED <<wvars, advars, pktvars, rdvars, blevars, stvars>>

EncodeFixed ==
    \E i \in 1..Len(FixedCommandSamples), cap \in 0..MaxCmdBuf, fill \in FillBytes :
        CmdEncoded(FixedCommandSamples[i], cap, fill)

EncodeSetAdvertisingData ==
    \E i \in 1..Len(DataSamples), cap \in 0..MaxCmdBuf, fill \in FillBytes :
        CmdEncoded([kind |-> "SetAdvertisingData", data |-> DataOf(DataSamples[i])],
                   cap, fill)

EncodeSetScanResponseData ==
    \E i \in 1..Len(DataSamples), cap \in 0..MaxCmdBuf, fill \in FillBytes :
        CmdEncoded([kind |-> "SetScanResponseData", data |-> DataOf(DataSamples[i])],
                   cap, fill)

NextCmd ==
    \/ EncodeFixed
    \/ EncodeSetAdvertisingData
    \/ EncodeSetScanResponseData

SpecCmd == InitCmd /\ [][NextCmd]_vars

(***************************************************************************)
(* Packet decoder runs: a received buffer is parsed by                     *)
(* HCIPacket::from_buf; an Event packet is then decoded by                 *)
(* HCIEvent::from_packet.                                                  *)
(***************************************************************************)
\* largest number of data bytes an ACL sample declares
MaxAclLen == 28

\* k bytes of content: 20, 37, 54, ...
Body(k) == [i \in 1..k |-> (17 * i + 3) % 256]

\* every prefix of b, b included
Prefixes(b) == {SubSeq(b, 1, k) : k \in 0..Len(b)}

\* received buffers: complete packets, packets followed by further bytes,
\* and every truncation of some of them
CommandBufs ==
    {<<1, op[1], op[2], n>> \o Body(m) :
        op \in {<<3, 12>>, <<12, 32>>}, n \in {0, 1, 3, 255}, m \in {0, 1, 3, 5, 255}}

EventBufs ==
    {<<4, ev, n>> \o p :
        ev \in {14, 62, 15},
        n \in 0..5,
        p \in {<<>>, <<1>>, <<1, 3>>, <<1, 3, 12>>, <<1, 3, 12, 0>>, <<2, 9, 12, 0, 7>>,
               <<2>>, <<2, 1>>, <<2, 1, 0, 1, 9>>, <<36, 1, 5>>, <<0, 0, 0>>}}
    \cup {<<4, 14, 255>> \o Body(255), <<4, 14, 255>> \o Body(254),
          <<4, 62, 12, 2, 1, 0, 1, 1, 2, 3, 4, 5, 6, 0, 200>>}

ACLBufs ==
    {<<2, h[1], h[2], n, 0>> \o Body(m) :
        h \in {<<1, 32>>, <<239, 205>>}, n \in {0, 5, 27, MaxAclLen}, m \in {0, 4, 5, 27, MaxAclLen}}
    \cup {<<2, 1, 32, 44, 1>> \o Body(300)}

\* calls of next() made on one AdvertisingReportIterator
MaxReportCalls == 4

\* one advertising report record: event type, address type, address, AD
\* length, AD bytes, RSSI
ReportRecord(event_type, address_type, address, ad, rssi) ==
    <<event_type, address_type>> \o address \o <<Len(ad)>> \o ad \o <<rssi>>

ReportSamples == <<
    ReportRecord(0, 0, <<17, 34, 51, 68, 85, 102>>, <<2, 1, 6>>, 200),
    ReportRecord(4, 1, <<1, 2, 3, 4, 5, 6>>, <<>>, 127),
    ReportRecord(3, 0, <<255, 238, 221, 204, 187, 170>>, <<2, 10, 252, 3, 25, 193, 3>>, 128) >>

\* an LE meta event packet, sub-event AdvertisingReport, over the bytes
LEAdvertisingReport(num_reports, bytes) ==
    <<4, 62, Len(bytes) + 2, 2, num_reports>> \o bytes

\* report bytes: concatenated records, every truncation of two records,
\* and records whose AD length exceeds the bytes that follow
ReportBytes ==
    {<<>>, ReportSamples[1], ReportSamples[2], ReportSamples[3],
     ReportSamples[1] \o ReportSamples[2], ReportSamples[2] \o ReportSamples[1],
     ReportSamples[1] \o ReportSamples[2] \o ReportSamples[3],
     ReportSamples[3] \o ReportSamples[3] \o ReportSamples[1]}
    \cup Prefixes(ReportSamples[1] \o ReportSamples[2])
    \cup {<<0, 0, 1, 2, 3, 4, 5, 6, 40>> \o ReportSamples[2],
          <<0, 0, 1, 2, 3, 4, 5, 6, 11>> \o ReportSamples[2],
          ReportSamples[2] \o <<0, 0, 1, 2, 3, 4, 5, 6, 200>> \o ReportSamples[1]}

ReportBufs ==
    {LEAdvertisingReport(n, b) : n \in {0, 1, 3}, b \in ReportBytes}

OtherBufs ==
    {<<t>> \o b : t \in {0, 3, 5, 6, 255}, b \in {<<>>, <<1, 2, 3>>}}

PktSamples ==
    CommandBufs \cup EventBufs \cup ACLBufs \cup OtherBufs \cup ReportBufs
    \cup Prefixes(<<1, 3, 12, 3, 20, 37, 54>>)
    \cup Prefixes(<<4, 14, 4, 1, 3, 12, 0>>)
    \cup Prefixes(<<2, 1, 32, 5, 0, 20, 37, 54, 71, 88>>)

InitPkt == IdleWriter /\ IdleAd /\ IdleCmd /\ IdlePkt /\ IdleReader /\ IdleBle /\ IdleState

\* HCIPacket::from_buf(&buf)
FromBuf ==
    /\ pkt_pc = "idle"
    /\ \E buf \in PktSamples :
        /\ pkt_in' = buf
        /\ pkt_out' = HCIPacket_from_buf(buf)
    /\ pkt_pc' = "parsed"
    /\ UNCHANGED <<evt_out, rep_it, rep_out, wvars, advars, cmdvars, rdvars, blevars, stvars>>

\* HCIEvent::from_packet(&packet) on the Event packet from_buf returned
FromPacket ==
    /\ pkt_pc = "parsed"
    /\ pkt_out.pkt.kind = "Event"
    /\ \E e \in HCIEvent_from_packet(pkt_out.pkt) :
        /\ evt_out' = e
        /\ rep_it' = IF e.kind = "AdvertisingReport"
                     THEN [num_reports |-> e.num, reader |-> Reader_new(e.data)]
                     ELSE rep_it
    /\ pkt_pc' = "decoded"
    /\ UNCHANGED <<pkt_in, pkt_out, rep_out, wvars, advars, cmdvars, rdvars, blevars, stvars>>

\* reports.next() on the AdvertisingReportIterator of the decoded event
ReportNext ==
    /\ pkt_pc = "decoded"
    /\ evt_out.kind = "AdvertisingReport"
    /\ Len(rep_out) < MaxReportCalls
    /\ rep_it' = AdvertisingReportIterator_next(rep_it).it
    /\ rep_out' = Append(rep_out, AdvertisingReportIterator_next(rep_it).out)
    /\ UNCHANGED <<pkt_pc, pkt_in, pkt_out, evt_out, wvars, advars, cmdvars, rdvars, blevars, stvars>>

NextPkt ==
    \/ FromBuf
    \/ FromPacket
    \/ ReportNext

SpecPkt == InitPkt /\ [][NextPkt]_vars

(***************************************************************************)
(* Writer runs: a Writer over a buffer of capacity 0..MaxCap receives up   *)
(* to MaxWrites write calls.                                               *)
(***************************************************************************)
U8Samples == {0, 171, 255}
U16Samples == {<<258>>, <<65535>>}
U32Samples == {<<4660, 22136>>}
U64Samples == {<<258, 772, 1286, 1800>>}
U128Samples == {<<258, 772, 1286, 1800, 2314, 2828, 3342, 65535>>}
SliceSamples == {<<>>, <<1>>, <<1, 2, 3>>}

InitWriter ==
    /\ \E c \in 0..MaxCap, f \in FillBytes : writer = Writer_new(Pad(c, f))
    /\ wcall = [op |-> "none", bytes |-> <<>>, pre |-> Writer_new(<<>>), res |-> "Ok"]
    /\ wcount = 0
    /\ IdleAd
    /\ IdleCmd
    /\ IdlePkt
    /\ IdleReader
    /\ IdleBle
    /\ IdleState

\* one call: r is the result of the write, bytes what it was asked to write
WriterCall(op, bytes, r) ==
    /\ wcount < MaxWrites
    /\ writer' = r.w
    /\ wcall' = [op |-> op, bytes |-> bytes, pre |-> writer, res |-> r.res]
    /\ wcount' = wcount + 1
    /\ UNCHANGED <<advars, cmdvars, pktvars, rdvars, blevars, stvars>>

write_u8 ==
    \E v \in U8Samples :
        WriterCall("write_u8", u8_to_le_bytes(v), Writer_write_u8(writer, v))

write_u16 ==
    \E v \in U16Samples :
        WriterCall("write_u16", to_le_bytes(v), Writer_write_u16(writer, v))

write_u32 ==
    \E v \in U32Samples :
        WriterCall("write_u32", to_le_bytes(v), Writer_write_u32(writer, v))

write_u64 ==
    \E v \in U64Samples :
        WriterCall("write_u64", to_le_bytes(v), Writer_write_u64(writer, v))

write_u128 ==
    \E v \in U128Samples :
        WriterCall("write_u128", to_le_bytes(v), Writer_write_u128(writer, v))

write_slice ==
    \E s \in SliceSamples :
        WriterCall("write_slice", s, Writer_write_slice(writer, s))

NextWriter ==
    \/ write_u8
    \/ write_u16
    \/ write_u32
    \/ write_u64
    \/ write_u128
    \/ write_slice

SpecWriter == InitWriter /\ [][NextWriter]_vars

(***************************************************************************)
(* Claims about the Writer.                                                *)
(***************************************************************************)
\* the last call asked for n bytes at cursor pos over capacity C
CallN == Len(wcall.bytes)
CallPos == wcall.pre.pos
CallCap == Len(wcall.pre.buf)

\* C1: a write that does not fit (pos + n > C) returns BufferOverflow and
\* leaves every buffer byte and the cursor unchanged; after any sequence of
\* writes pos <= C, the capacity is unchanged and no write indexed past C.
C1_NoPartialWrite ==
    /\ writer.pos <= Len(writer.buf)
    /\ wcall.op # "none" =>
        /\ Len(writer.buf) = CallCap
        /\ wcall.res # "Panic"
        /\ CallPos + CallN > CallCap =>
            /\ wcall.res = "BufferOverflow"
            /\ writer = wcall.pre

\* a write that did not fit was refused after an earlier write had succeeded
C1_Witness ==
    /\ wcall.op # "none"
    /\ CallPos > 0
    /\ CallPos + CallN > CallCap
    /\ wcall.res = "BufferOverflow"
    /\ writer = wcall.pre

\* C2: a write of n bytes at pos over capacity C succeeds whenever
\* pos + n <= C and fails with BufferOverflow only when pos + n > C.
C2_SucceedsWheneverFits ==
    wcall.op # "none" =>
        /\ CallPos + CallN <= CallCap => wcall.res = "Ok"
        /\ wcall.res = "BufferOverflow" => CallPos + CallN > CallCap

(***************************************************************************)
(* The wire layouts the specification gives (sections 4.3, 4.4 and 6),     *)
(* written out independently of the encoder: what the claims compare the   *)
(* encoder's output with.                                                  *)
(***************************************************************************)
\* little-endian bytes of a value given as limbs, most significant first
RECURSIVE RefLE(_)
RefLE(limbs) ==
    IF limbs = <<>> THEN <<>>
    ELSE RefLE(Tail(limbs)) \o <<Head(limbs) % 256, Head(limbs) \div 256>>

\* the elements of a list of k-limb values, each little-endian, in order
RECURSIVE RefList(_, _)
RefList(limbs, k) ==
    IF limbs = <<>> THEN <<>>
    ELSE RefLE(SubSeq(limbs, 1, k)) \o RefList(SubSeq(limbs, k + 1, Len(limbs)), k)

\* the tag table of section 6
RefTag(variant) ==
    CASE variant = "Flags" -> 1
      [] variant = "IncompleteListOf16BitServiceUUIDs" -> 2
      [] variant = "CompleteListOf16BitServiceUUIDs" -> 3
      [] variant = "IncompleteListOf32BitServiceUUIDs" -> 4
      [] variant = "CompleteListOf32BitServiceUUIDs" -> 5
      [] variant = "IncompleteListOf128BitServiceUUIDs" -> 6
      [] variant = "CompleteListOf128BitServiceUUIDs" -> 7
      [] variant = "ShortenedLocalName" -> 8
      [] variant = "CompleteLocalName" -> 9
      [] variant = "TxPowerLevel" -> 10
      [] variant = "ClassOfDevice" -> 13
      [] variant = "PeripheralConnectionIntervalRange" -> 18
      [] variant = "ServiceData" -> 22
      [] variant = "Appearance" -> 25
      [] variant = "LEBluetoothDeviceAddress" -> 27
      [] variant = "ManufacturerSpecificData" -> 255

\* the payload of one AdvertisingData value
RefPayload(ad) ==
    CASE UuidLimbs(ad.variant) > 0 -> RefList(ad.val, UuidLimbs(ad.variant))
      [] ad.variant \in {"ClassOfDevice", "Appearance"} -> RefLE(ad.val)
      [] ad.variant = "TxPowerLevel" -> <<(ad.val[1] + 256) % 256>>
      [] OTHER -> ad.val

\* the TLV record of one value: len (tag + payload), tag, payload
RefRecord(ad) == <<Len(RefPayload(ad)) + 1, RefTag(ad.variant)>> \o RefPayload(ad)

\* the records of a list, concatenated in list order
RECURSIVE RefRecords(_)
RefRecords(data) ==
    IF data = <<>> THEN <<>> ELSE RefRecord(Head(data)) \o RefRecords(Tail(data))

\* the command table of section 4.3: OCF | (OGF << 10)
RefOpcode(kind) ==
    CASE kind = "Reset" -> 3 + 3 * 1024
      [] kind = "SetAdvertisingParameters" -> 6 + 8 * 1024
      [] kind = "SetAdvertisingData" -> 8 + 8 * 1024
      [] kind = "SetScanResponseData" -> 9 + 8 * 1024
      [] kind = "SetAdvertisingEnable" -> 10 + 8 * 1024
      [] kind = "SetScanParameters" -> 11 + 8 * 1024
      [] kind = "ScanEnable" -> 12 + 8 * 1024

RefU16(v) == <<v % 256, v \div 256>>

DataKinds == {"SetAdvertisingData", "SetScanResponseData"}
TableKinds == {"Reset", "SetAdvertisingParameters", "SetAdvertisingEnable",
               "SetScanParameters", "ScanEnable"}

\* the parameter bytes of a command, in the table's order
RefParams(c) ==
    CASE c.kind = "Reset" -> <<>>
      [] c.kind = "SetAdvertisingParameters" ->
            RefU16(c.interval_min) \o RefU16(c.interval_max)
            \o <<c.advertising_type, c.own_address_type, c.peer_address_type>>
            \o c.peer_address
            \o <<c.advertising_channel_map, c.advertising_filter_policy>>
      [] c.kind = "SetAdvertisingEnable" -> <<c.enable>>
      [] c.kind = "SetScanParameters" ->
            <<c.scan_type>> \o RefU16(c.scan_interval) \o RefU16(c.scan_window)
            \o <<c.own_address_type, c.scanning_filter_policy>>
      [] c.kind = "ScanEnable" -> <<c.scan_enable, c.filter_duplicates>>
      [] c.kind \in DataKinds ->
            LET tlv == RefRecords(c.data)
            IN <<Len(tlv)>> \o tlv \o [i \in 1..(31 - Len(tlv)) |-> 0]

\* the complete packet: type byte, opcode, parameter length, parameters
RefPacket(c) ==
    <<1>> \o RefU16(RefOpcode(c.kind)) \o <<Len(RefParams(c))>> \o RefParams(c)

\* the parameter lengths the command table gives
RefParamLen(kind) ==
    CASE kind = "Reset" -> 0
      [] kind = "SetAdvertisingParameters" -> 15
      [] kind \in DataKinds -> 32
      [] kind = "SetAdvertisingEnable" -> 1
      [] kind = "SetScanParameters" -> 7
      [] kind = "ScanEnable" -> 2

\* a complete packet exists for the command: its records fit the 31 bytes
HasPacket(c) == c.kind \in DataKinds => Len(RefRecords(c.data)) <= 31

(***************************************************************************)
(* Claims about HCICommand::write_into (runs of SpecCmd).                  *)
(***************************************************************************)
CmdN == cmd_out.res.val

\* C3: write_into returns Some(n) only if the complete encoded packet
\* occupies buf[0..n]; when the buffer cannot hold the complete packet the
\* call reports failure.
C3_SomeOnlyIfComplete ==
    (cmd_pc = "done" /\ HasPacket(cmd_in.cmd)) =>
        /\ cmd_out.res.some =>
            /\ CmdN = Len(RefPacket(cmd_in.cmd))
            /\ SubSeq(cmd_out.buf, 1, CmdN) = RefPacket(cmd_in.cmd)
        /\ cmd_in.cap < Len(RefPacket(cmd_in.cmd)) => ~cmd_out.res.some

\* C4: for Reset, SetAdvertisingParameters, SetAdvertisingEnable,
\* SetScanParameters and ScanEnable, with a buffer that can hold the packet,
\* write_into emits 0x01, the opcode of the table row little-endian, the
\* parameter length and the parameters in table order, and returns the count.
C4_TableLayout ==
    (/\ cmd_pc = "done"
     /\ cmd_in.cmd.kind \in TableKinds
     /\ cmd_in.cap >= Len(RefPacket(cmd_in.cmd))) =>
        /\ cmd_out.res = Some(Len(RefPacket(cmd_in.cmd)))
        /\ SubSeq(cmd_out.buf, 1, Len(RefPacket(cmd_in.cmd))) = RefPacket(cmd_in.cmd)

\* the layout of C4 once the buffer has at least one byte more than the packet
TableLayoutWithSpareByte ==
    (/\ cmd_pc = "done"
     /\ cmd_in.cmd.kind \in TableKinds
     /\ cmd_in.cap > Len(RefPacket(cmd_in.cmd))) =>
        /\ cmd_out.res = Some(Len(RefPacket(cmd_in.cmd)))
        /\ SubSeq(cmd_out.buf, 1, Len(RefPacket(cmd_in.cmd))) = RefPacket(cmd_in.cmd)

\* C5: in every packet write_into produces into a buffer that can hold it,
\* the parameter-length byte (offset 3) equals the number of parameter bytes
\* after it, the returned length minus 4, which is the table's length.
C5_ParamLenByte ==
    (/\ cmd_pc = "done"
     /\ cmd_in.cap >= 4 + RefParamLen(cmd_in.cmd.kind)
     /\ cmd_out.res.some) =>
        /\ CmdN >= 4
        /\ cmd_out.buf[4] = CmdN - 4
        /\ CmdN - 4 = RefParamLen(cmd_in.cmd.kind)

\* C6: encoding SetAdvertisingData / SetScanResponseData returns no value
\* whenever the TLV records of the elements do not all fit into 31 bytes.
C6_FailsWhenRecordsOverflow ==
    (/\ cmd_pc = "done"
     /\ cmd_in.cmd.kind \in DataKinds
     /\ Len(RefRecords(cmd_in.cmd.data)) > 31) =>
        ~cmd_out.res.some

\* C7: for every list whose records total L <= 31 bytes, SetAdvertisingData
\* (OCF 0x08) and SetScanResponseData (OCF 0x09) encode, into a buffer that
\* can hold the 36 bytes, as 0x01, opcode, 0x20, L, the records in list
\* order, zero padding to 31 bytes.
C7_DataLayout ==
    (/\ cmd_pc = "done"
     /\ cmd_in.cmd.kind \in DataKinds
     /\ Len(RefRecords(cmd_in.cmd.data)) <= 31
     /\ cmd_in.cap >= 36) =>
        /\ Len(RefPacket(cmd_in.cmd)) = 36
        /\ cmd_out.res = Some(36)
        /\ SubSeq(cmd_out.buf, 1, 36) = RefPacket(cmd_in.cmd)

(***************************************************************************)
(* Claims about the Advertising Data codec (runs of SpecAd).               *)
(***************************************************************************)
AdN == ad_out.res.val

\* C8: write_into writes, for every variant, the AD-type tag the tag table
\* assigns to that variant (second byte of the record).
C8_TagOfVariant ==
    (ad_pc # "idle" /\ ad_out.res.some /\ AdN >= 2) =>
        ad_out.buf[2] = RefTag(ad_in.ad.variant)

\* C9: decoding the bytes produced by encoding x (into a buffer that can
\* hold its record) yields exactly one element equal to x, then
\* end-of-sequence.
C9_RoundTrip ==
    (/\ ad_pc = "iterating"
     /\ Len(RefPayload(ad_in.ad)) <= 254
     /\ ad_in.cap >= Len(RefRecord(ad_in.ad))) =>
        /\ Len(adit_out) >= 1 => adit_out[1] = OutSome(ad_in.ad.variant, ad_in.ad.val)
        /\ Len(adit_out) >= 2 => adit_out[2] = OutNone

\* C10: whenever write_into returns Some(n), the record-length byte buf[0]
\* equals n - 1, for every payload length and every destination.
C10_RecordLenByte ==
    (ad_pc # "idle" /\ ad_out.res.some) =>
        /\ AdN >= 1
        /\ ad_out.buf[1] = AdN - 1

(***************************************************************************)
(* Claims about AdvertisingDataIterator over received bytes (runs of       *)
(* SpecAd that start with AdIterBytes).  The record format of section 6    *)
(* is written out independently of the decoder.                            *)
(***************************************************************************)
RefVariants ==
    {"Flags", "IncompleteListOf16BitServiceUUIDs", "CompleteListOf16BitServiceUUIDs",
     "IncompleteListOf32BitServiceUUIDs", "CompleteListOf32BitServiceUUIDs",
     "IncompleteListOf128BitServiceUUIDs", "CompleteListOf128BitServiceUUIDs",
     "ShortenedLocalName", "CompleteLocalName", "TxPowerLevel", "ClassOfDevice",
     "PeripheralConnectionIntervalRange", "ServiceData", "Appearance",
     "LEBluetoothDeviceAddress", "ManufacturerSpecificData"}

RefTags == {RefTag(v) : v \in RefVariants}

RefVariant(tag) == CHOOSE v \in RefVariants : RefTag(v) = tag

\* element width in bytes of the UUID-list tags, 0 for the other tags
RefWidth(tag) ==
    IF tag \in {2, 3} THEN 2 ELSE IF tag \in {4, 5} THEN 4
    ELSE IF tag \in {6, 7} THEN 16 ELSE 0

\* the value of little-endian bytes, as limbs, most significant first
RECURSIVE RefLimbs(_)
RefLimbs(bytes) ==
    IF Len(bytes) < 2 THEN <<>>
    ELSE RefLimbs(SubSeq(bytes, 3, Len(bytes))) \o <<bytes[1] + 256 * bytes[2]>>

\* the elements of a payload of w-byte little-endian values, in order
RECURSIVE RefElements(_, _)
RefElements(payload, w) ==
    IF Len(payload) < w THEN <<>>
    ELSE RefLimbs(SubSeq(payload, 1, w)) \o RefElements(SubSeq(payload, w + 1, Len(payload)), w)

\* the payload has the shape the tag's case carries
RefPayloadFits(tag, payload) ==
    CASE tag \in {1, 10} -> Len(payload) = 1
      [] RefWidth(tag) > 0 -> Len(payload) % RefWidth(tag) = 0
      [] tag \in {8, 9} -> \A i \in 1..Len(payload) : payload[i] < 128
      [] tag = 13 -> Len(payload) = 4
      [] tag = 25 -> Len(payload) = 2
      [] OTHER -> TRUE

\* the value the case of the tag carries for the payload
RefValue(tag, payload) ==
    CASE tag = 1 -> <<payload[1]>>
      [] tag = 10 -> <<IF payload[1] >= 128 THEN payload[1] - 256 ELSE payload[1]>>
      [] RefWidth(tag) > 0 -> RefElements(payload, RefWidth(tag))
      [] tag \in {13, 25} -> RefLimbs(payload)
      [] OTHER -> payload

\* the first record of b is complete: len >= 1, tag and len - 1 payload bytes
RefComplete(b) == Len(b) >= 2 /\ b[1] >= 1 /\ Len(b) >= b[1] + 1

RefFirstTag(b) == b[2]
RefFirstPayload(b) == SubSeq(b, 3, b[1] + 1)
RefAfterFirst(b) == SubSeq(b, b[1] + 2, Len(b))

\* b is a concatenation of well-formed records with tags of the table
RECURSIVE RefWellFormed(_)
RefWellFormed(b) ==
    \/ b = <<>>
    \/ /\ RefComplete(b)
       /\ RefFirstTag(b) \in RefTags
       /\ RefPayloadFits(RefFirstTag(b), RefFirstPayload(b))
       /\ RefWellFormed(RefAfterFirst(b))

\* the elements of a well-formed b, as next() is to yield them
RECURSIVE RefDecoded(_)
RefDecoded(b) ==
    IF b = <<>> THEN <<>>
    ELSE <<OutSome(RefVariant(RefFirstTag(b)), RefValue(RefFirstTag(b), RefFirstPayload(b)))>>
         \o RefDecoded(RefAfterFirst(b))

\* bytes of the first k records of a well-formed b
RECURSIVE RefConsumed(_, _)
RefConsumed(b, k) ==
    IF k = 0 \/ b = <<>> THEN 0
    ELSE b[1] + 1 + RefConsumed(RefAfterFirst(b), k - 1)

AdBytes == adit.reader.buf

\* C11: for every tag of the tag table and every well-formed record
\* [len, tag, payload], next yields the case matching the tag carrying the
\* payload; [02,01,06] yields Flags(6), [05,09,"ABCD"] CompleteLocalName.
C11_DecodesEveryTableTag ==
    (/\ ad_pc = "decoding"
     /\ AdBytes # <<>>
     /\ RefWellFormed(AdBytes)
     /\ Len(adit_out) >= 1) =>
        adit_out[1] = RefDecoded(AdBytes)[1]

\* C12: a record whose tag is not in the tag table gives an outcome that is
\* no crash and differs from end-of-sequence, and the cursor stands behind
\* the record so that the caller can continue.
C12_UnknownTagOutcome ==
    (/\ ad_pc = "decoding"
     /\ RefComplete(AdBytes)
     /\ RefFirstTag(AdBytes) \notin RefTags
     /\ Len(adit_out) >= 1) =>
        /\ adit_out[1].kind # "Panic"
        /\ adit_out[1] # OutNone
        /\ Len(adit_out) = 1 => adit.reader.pos = AdBytes[1] + 1

\* C13: next never crashes, whatever the bytes.
C13_NeverCrashes ==
    ad_pc = "decoding" => \A i \in 1..Len(adit_out) : adit_out[i].kind # "Panic"

\* C14: over K concatenated well-formed records the calls yield the K
\* elements in input order, each call consuming one record, and every call
\* after the K-th yields the end signal.
C14_YieldsKThenEnd ==
    (ad_pc = "decoding" /\ RefWellFormed(AdBytes)) =>
        LET K == Len(RefDecoded(AdBytes))
            n == Len(adit_out)
        IN /\ \A i \in 1..n :
                adit_out[i] = IF i <= K THEN RefDecoded(AdBytes)[i] ELSE OutNone
           /\ adit.reader.pos = RefConsumed(AdBytes, IF n <= K THEN n ELSE K)

\* C15: decoding a UUID-list record (tags 2..7) fails when the payload
\* length is no multiple of the element width, and otherwise yields the
\* list of the little-endian values of the width-byte groups, in order.
C15_UuidListDecoding ==
    (/\ ad_pc = "decoding"
     /\ RefComplete(AdBytes)
     /\ RefWidth(RefFirstTag(AdBytes)) > 0
     /\ Len(adit_out) >= 1) =>
        adit_out[1] =
            IF Len(RefFirstPayload(AdBytes)) % RefWidth(RefFirstTag(AdBytes)) # 0
            THEN OutNone
            ELSE OutSome(RefVariant(RefFirstTag(AdBytes)),
                         RefElements(RefFirstPayload(AdBytes), RefWidth(RefFirstTag(AdBytes))))

(***************************************************************************)
(* Claims about HCIPacket::from_buf and HCIEvent::from_packet (runs of     *)
(* SpecPkt).  The packet framing of section 4.2 is written out             *)
(* independently of the decoder.                                           *)
(***************************************************************************)
\* bytes before the parameters: type, then opcode + len, handle/flags +
\* 16-bit len, or event code + len
RefHeaderLen(t) == IF t = 1 THEN 4 ELSE IF t = 2 THEN 5 ELSE 3

\* the length a buffer with a complete header declares
RefDeclared(b) ==
    IF b[1] = 1 THEN b[4] ELSE IF b[1] = 2 THEN b[4] + 256 * b[5] ELSE b[3]

RefFramed(b) == b # <<>> /\ b[1] \in {1, 2, 4}

\* the buffer ends before the packet it starts does
RefTruncated(b) ==
    \/ b = <<>>
    \/ /\ RefFramed(b)
       /\ \/ Len(b) < RefHeaderLen(b[1])
          \/ Len(b) < RefHeaderLen(b[1]) + RefDeclared(b)

\* a complete ACL-Data packet that declares more than 27 data bytes
RefOversize(b) ==
    RefFramed(b) /\ b[1] = 2 /\ ~RefTruncated(b) /\ RefDeclared(b) > 27

\* C16: from_buf never crashes: every truncated buffer and every buffer
\* whose declared length exceeds what the packet structure can hold (an
\* ACL-Data packet with more than 27 data bytes) gives a returned failure.
C16_FromBufNeverCrashes ==
    pkt_pc # "idle" =>
        /\ pkt_out.pkt.kind # "Panic"
        /\ (RefTruncated(pkt_in) \/ RefOversize(pkt_in)) => pkt_out.pkt.kind = "None"

\* C17: for a buffer that starts with 0x01 or 0x04 followed by a complete
\* header and at least param_len parameter bytes, from_buf returns the
\* matching packet with the opcode (little-endian) or event code, len =
\* param_len and parameters[0..len] the input bytes; later bytes are ignored.
C17_CommandAndEventPackets ==
    (/\ pkt_pc # "idle"
     /\ RefFramed(pkt_in)
     /\ pkt_in[1] \in {1, 4}
     /\ ~RefTruncated(pkt_in)) =>
        LET n == RefDeclared(pkt_in)
            h == RefHeaderLen(pkt_in[1])
        IN /\ pkt_out.pkt.kind = (IF pkt_in[1] = 1 THEN "Command" ELSE "Event")
           /\ pkt_out.pkt.code = (IF pkt_in[1] = 1 THEN pkt_in[2] + 256 * pkt_in[3]
                                  ELSE pkt_in[2])
           /\ pkt_out.pkt.len = n
           /\ SubSeq(pkt_out.pkt.data, 1, n) = SubSeq(pkt_in, h + 1, h + n)

\* a Command buffer with 3 declared parameter bytes and further bytes
\* behind them has been parsed into a Command packet
C17_Witness ==
    /\ pkt_pc = "parsed"
    /\ RefFramed(pkt_in)
    /\ pkt_in[1] = 1
    /\ ~RefTruncated(pkt_in)
    /\ RefDeclared(pkt_in) = 3
    /\ Len(pkt_in) > 4 + 3
    /\ pkt_out.pkt.kind = "Command"

\* C18: from_buf reports three distinguishable failures: types 0x03 and
\* 0x05 give an "unsupported" condition, a type outside 0x01..0x05 an
\* "unknown" condition carrying the byte, both unlike the failure returned
\* for truncated input.
C18_DistinguishableFailures ==
    (pkt_pc # "idle" /\ pkt_in # <<>>) =>
        LET truncated == HCIPacket_from_buf(<<>>).pkt
            unsupported == HCIPacket_from_buf(<<3>>).pkt
        IN /\ pkt_in[1] \in {3, 5} => pkt_out.pkt # truncated
           /\ pkt_in[1] \notin 1..5 =>
                /\ pkt_out.pkt # truncated
                /\ pkt_out.pkt # unsupported
                /\ pkt_out.pkt.code = pkt_in[1]

EvLen == pkt_in[3]
EvParams == SubSeq(pkt_in, 4, 3 + EvLen)

\* C19: for a CommandComplete event packet (0x0E) with len >= 3 and
\* parameter bytes p, from_packet yields num_hci_command_packets = p[0],
\* command_opcode = p[1] | p[2] << 8 and return_parameters = p[3..len].
C19_CommandComplete ==
    (pkt_pc = "decoded" /\ pkt_in[2] = 14 /\ EvLen >= 3) =>
        /\ evt_out.kind = "CommandComplete"
        /\ evt_out.num = EvParams[1]
        /\ evt_out.command_opcode = EvParams[2] + 256 * EvParams[3]
        /\ evt_out.data = SubSeq(EvParams, 4, EvLen)

\* a CommandComplete event with return parameters has been decoded
C19_Witness ==
    /\ pkt_pc = "decoded"
    /\ pkt_in[2] = 14
    /\ EvLen >= 4
    /\ EvLen < 255
    /\ evt_out.kind = "CommandComplete"
    /\ Len(evt_out.data) = EvLen - 3

\* C20: on an event packet whose declared length is too short for its
\* fixed fields (CommandComplete with len < 3, LE meta event with len < 2)
\* from_packet returns a failure: no crash, no event.
C20_ShortEventFails ==
    (/\ pkt_pc = "decoded"
     /\ \/ pkt_in[2] = 14 /\ EvLen < 3
        \/ pkt_in[2] = 62 /\ EvLen < 2) =>
        evt_out.kind = "None"

EvCode == pkt_in[2]

\* the explicit hard stops of the decoder: the panic of a derived From<u8>
\* and unimplemented!()
HardStops == {EvtPanic("Invalid value"), EvtPanic("not implemented")}

\* C21: every run of the event decoder ends in one terminal state fixed by
\* the bytes: CommandComplete only for event code 0x0E, the LE meta
\* terminal only for event code 0x3E with sub-event code 0x02, and for any
\* other event code or sub-event code the explicit unimplemented stop; no
\* event value is returned for an out-of-scope code.
C21_TerminalByCodes ==
    pkt_pc = "decoded" =>
        /\ evt_out.kind \in {"CommandComplete", "AdvertisingReport", "None", "Panic"}
        /\ evt_out.kind = "CommandComplete" => EvCode = 14
        /\ evt_out.kind = "AdvertisingReport" =>
                (EvCode = 62 /\ EvLen >= 1 /\ pkt_in[4] = 2)
        /\ EvCode \notin {14, 62} => evt_out \in HardStops
        /\ (EvCode = 62 /\ EvLen >= 1 /\ pkt_in[4] # 2) => evt_out \in HardStops

\* an LE meta event with a sub-event code other than 0x02 has been decoded
C21_Witness ==
    /\ pkt_pc = "decoded"
    /\ EvCode = 62
    /\ EvLen >= 2
    /\ pkt_in[4] = 1
    /\ evt_out \in HardStops

(***************************************************************************)
(* Runs of a Reader: a buffer is wrapped, then read_* / read_slice / seek   *)
(* are called on it in any order.  A panic ends the run.                   *)
(***************************************************************************)
MaxReaderBuf == 21
MaxReaderCalls == 3
MaxSliceLen == 5

ReaderBufLens == {0, 1, 2, 3, 4, 7, 8, 16, 17, MaxReaderBuf}

InitReader ==
    /\ \E n \in ReaderBufLens : rd = Reader_new(Body(n))
    /\ rd_call = [op |-> "none", arg |-> 0, pre |-> Reader_new(<<>>), res |-> None,
                  panic |-> FALSE]
    /\ rd_count = 0
    /\ IdleWriter
    /\ IdleAd
    /\ IdleCmd
    /\ IdlePkt
    /\ IdleBle
    /\ IdleState

\* one read call: out is [r, val] as the Reader operators return it
ReaderCall(op, arg, out) ==
    /\ rd_count < MaxReaderCalls
    /\ ~rd_call.panic
    /\ rd' = out.r
    /\ rd_call' = [op |-> op, arg |-> arg, pre |-> rd, res |-> out.val, panic |-> FALSE]
    /\ rd_count' = rd_count + 1
    /\ UNCHANGED <<wvars, advars, cmdvars, pktvars, blevars, stvars>>

read_u8 == ReaderCall("read_u8", 1, Reader_read_u8(rd))

read_u16 == ReaderCall("read_u16", 2, Reader_read_u16(rd))

read_u32 == ReaderCall("read_u32", 4, Reader_read_u32(rd))

read_u64 == ReaderCall("read_u64", 8, Reader_read_u64(rd))

read_u128 == ReaderCall("read_u128", 16, Reader_read_u128(rd))

read_slice == \E n \in 0..MaxSliceLen : ReaderCall("read_slice", n, Reader_read_slice(rd, n))

seek ==
    \E pos \in 0..(Len(rd.buf) + 2) :
        /\ rd_count < MaxReaderCalls
        /\ ~rd_call.panic
        /\ rd' = Reader_seek(rd, pos).r
        /\ rd_call' = [op |-> "seek", arg |-> pos, pre |-> rd, res |-> None,
                       panic |-> Reader_seek(rd, pos).panic]
        /\ rd_count' = rd_count + 1
        /\ UNCHANGED <<wvars, advars, cmdvars, pktvars, blevars, stvars>>

NextReader ==
    \/ read_u8
    \/ read_u16
    \/ read_u32
    \/ read_u64
    \/ read_u128
    \/ read_slice
    \/ seek

SpecReader == InitReader /\ [][NextReader]_vars

(***************************************************************************)
(* Runs of Ble: the three command methods are called in any order; each    *)
(* hands the written prefix of Ble::buf to the connector.                  *)
(***************************************************************************)
MaxBleCalls == 4

InitBle ==
    /\ ble_buf = Pad(BLE_BUF_SIZE, 0)
    /\ ble_sent = <<>>
    /\ IdleWriter
    /\ IdleAd
    /\ IdleCmd
    /\ IdlePkt
    /\ IdleReader
    /\ IdleState

\* Ble::write called by the method named
Ble_write(method, packet) ==
    /\ Len(ble_sent) < MaxBleCalls
    /\ ble_buf' = write_to_buffer(packet, ble_buf).buf
    /\ ble_sent' = Append(ble_sent,
            [method |-> method,
             bytes |-> SubSeq(write_to_buffer(packet, ble_buf).buf, 1,
                              write_to_buffer(packet, ble_buf).len)])
    /\ UNCHANGED <<wvars, advars, cmdvars, pktvars, rdvars, stvars>>

reset == Ble_write("reset", Ble_reset_packet)

set_le_scan_enable == Ble_write("set_le_scan_enable", Ble_set_le_scan_enable_packet)

set_le_scan_parameters ==
    Ble_write("set_le_scan_parameters", Ble_set_le_scan_parameters_packet)

NextBle ==
    \/ reset
    \/ set_le_scan_enable
    \/ set_le_scan_parameters

SpecBle == InitBle /\ [][NextBle]_vars

(***************************************************************************)
(* Runs of a State: from Default, next(), reset_cycle() and the twelve     *)
(* setters are called in any order.                                        *)
(***************************************************************************)
MaxNextCalls == 33
MaxSetterCalls == 2

InitState ==
    /\ st_value = State_default
    /\ st_call = [op |-> "none", arg |-> FALSE, pre |-> 0, ret |-> FALSE]
    /\ st_n = 0
    /\ st_base = State_default
    /\ st_sets = 0
    /\ IdleWriter
    /\ IdleAd
    /\ IdleCmd
    /\ IdlePkt
    /\ IdleReader
    /\ IdleBle

\* state.next()
next ==
    /\ st_n < MaxNextCalls
    /\ st_value' = State_next(st_value).value
    /\ st_call' = [op |-> "next", arg |-> FALSE, pre |-> st_value,
                   ret |-> State_next(st_value).ret]
    /\ st_n' = IF st_n >= 0 THEN st_n + 1 ELSE st_n
    /\ UNCHANGED <<st_base, st_sets, wvars, advars, cmdvars, pktvars, rdvars, blevars>>

\* state.reset_cycle()
reset_cycle ==
    /\ st_value' = State_reset_cycle(st_value)
    /\ st_call' = [op |-> "reset_cycle", arg |-> FALSE, pre |-> st_value, ret |-> FALSE]
    /\ st_n' = 0
    /\ st_base' = State_reset_cycle(st_value)
    /\ UNCHANGED <<st_sets, wvars, advars, cmdvars, pktvars, rdvars, blevars>>

\* state.set_<button>(value)
Setter(op, value, offset) ==
    /\ st_sets < MaxSetterCalls
    /\ st_value' = State_write_bit(st_value, value, offset)
    /\ st_call' = [op |-> op, arg |-> value, pre |-> st_value, ret |-> FALSE]
    /\ st_n' = -1
    /\ st_sets' = st_sets + 1
    /\ UNCHANGED <<st_base, wvars, advars, cmdvars, pktvars, rdvars, blevars>>

set_b == \E value \in BOOLEAN : Setter("set_b", value, B_OFFSET)

set_y == \E value \in BOOLEAN : Setter("set_y", value, Y_OFFSET)

set_select == \E value \in BOOLEAN : Setter("set_select", value, SELECT_OFFSET)

set_start == \E value \in BOOLEAN : Setter("set_start", value, START_OFFSET)

set_up == \E value \in BOOLEAN : Setter("set_up", value, UP_OFFSET)

set_down == \E value \in BOOLEAN : Setter("set_down", value, DOWN_OFFSET)

set_left == \E value \in BOOLEAN : Setter("set_left", value, LEFT_OFFSET)

set_right == \E value \in BOOLEAN : Setter("set_right", value, RIGHT_OFFSET)

set_a == \E value \in BOOLEAN : Setter("set_a", value, A_OFFSET)

set_x == \E value \in BOOLEAN : Setter("set_x", value, X_OFFSET)

set_l == \E value \in BOOLEAN : Setter("set_l", value, L_OFFSET)

set_r == \E value \in BOOLEAN : Setter("set_r", value, R_OFFSET)

NextState ==
    \/ next
    \/ reset_cycle
    \/ set_b
    \/ set_y
    \/ set_select
    \/ set_start
    \/ set_up
    \/ set_down
    \/ set_left
    \/ set_right
    \/ set_a
    \/ set_x
    \/ set_l
    \/ set_r

SpecState == InitState /\ [][NextState]_vars

(***************************************************************************)
(* AdvertisingReport sequences                                             *)
(***************************************************************************)
\* the record layout, read off the bytes: 2 header bytes, 6 address bytes,
\* the AD length L at offset 8, L AD bytes, RSSI
RefRecordComplete(b) == Len(b) >= 10 /\ Len(b) >= 10 + b[9]

RECURSIVE RefRecordsWellFormed(_)
RefRecordsWellFormed(b) ==
    \/ b = <<>>
    \/ /\ RefRecordComplete(b)
       /\ RefRecordsWellFormed(SubSeq(b, 11 + b[9], Len(b)))

RECURSIVE RefReports(_)
RefReports(b) ==
    IF b = <<>> THEN <<>>
    ELSE <<[kind |-> "Some", event_type |-> b[1], address_type |-> b[2],
            address |-> <<b[3], b[4], b[5], b[6], b[7], b[8]>>,
            data |-> [i \in 1..b[9] |-> b[9 + i]],
            rssi |-> IF b[10 + b[9]] < 128 THEN b[10 + b[9]] ELSE b[10 + b[9]] - 256]>>
         \o RefReports(SubSeq(b, 11 + b[9], Len(b)))

\* the bytes the decoded event's report iterator was built over
ReportInput == evt_out.data

\* the bytes a report iterator has not read yet
Unread(it) == SubSeq(it.reader.buf, it.reader.pos + 1, Len(it.reader.buf))

\* C22: an AdvertisingReport sequence over N concatenated well-formed records
\* yields exactly those N reports in input order (own fields, AD bytes of
\* exactly its L bytes, RSSI as a signed byte) and every later call yields
\* no element, whatever the num_reports byte says.
C22_YieldsNReportsThenEnd ==
    (pkt_pc = "decoded" /\ evt_out.kind = "AdvertisingReport"
        /\ RefRecordsWellFormed(ReportInput)) =>
        \A i \in 1..Len(rep_out) :
            IF i <= Len(RefReports(ReportInput))
            THEN rep_out[i] = RefReports(ReportInput)[i]
            ELSE rep_out[i].kind = "None"

C22_Witness ==
    /\ pkt_pc = "decoded" /\ evt_out.kind = "AdvertisingReport"
    /\ evt_out.num = 0
    /\ RefRecordsWellFormed(ReportInput)
    /\ Len(RefReports(ReportInput)) = 3
    /\ Len(rep_out) = 4
    /\ rep_out[3].kind = "Some" /\ rep_out[3].rssi = -56
    /\ Len(rep_out[3].data) = 3
    /\ rep_out[4].kind = "None"

\* C23: a call of next() made when bytes remain but are too few for the next
\* record's declared fields returns no report (and the model of next() has no
\* panicking outcome).
C23_TruncatedRecordFails ==
    [][(rep_out' # rep_out /\ Unread(rep_it) # <<>> /\ ~RefRecordComplete(Unread(rep_it)))
        => rep_out'[Len(rep_out')].kind = "None"]_vars

C23_Witness ==
    /\ pkt_pc = "decoded" /\ evt_out.kind = "AdvertisingReport"
    /\ Len(rep_out) = 2
    /\ rep_out[1].kind = "Some"
    /\ rep_out[2].kind = "None"
    /\ Reader_remaining(rep_it.reader) > 0

\* C28: once next() has returned no element, every later call on the same
\* iterator returns no element.
C28_NoneIsFinal ==
    \A i \in 1..Len(rep_out) : \A j \in i..Len(rep_out) :
        rep_out[i].kind = "None" => rep_out[j].kind = "None"

(***************************************************************************)
(* Reader                                                                  *)
(***************************************************************************)
ReadOps == {"read_u8", "read_u16", "read_u32", "read_u64", "read_u128", "read_slice"}

\* the bytes at [pos, pos + n) of the buffer, counted from the cursor before
RefBytesAt(r, n) == [i \in 1..n |-> r.buf[r.pos + i]]

\* the value a read returned equals the little-endian reading of the bytes:
\* limb j from the least significant end is bytes 2j-1 (low) and 2j (high)
RefValueIs(op, val, bytes) ==
    CASE op = "read_slice" -> val = bytes
      [] op = "read_u8" -> val = bytes[1]
      [] OTHER ->
            /\ Len(val) = Len(bytes) \div 2
            /\ \A j \in 1..Len(val) :
                   val[Len(val) + 1 - j] = bytes[2 * j - 1] + 256 * bytes[2 * j]

\* C24: a read of n bytes with fewer than n remaining returns no value, does
\* not crash and leaves the cursor unchanged; otherwise it returns the bytes
\* at [pos, pos + n) (scalars little-endian), advances the cursor by n and
\* remaining() decreases by n.
C24_ReadContract ==
    rd_call.op \in ReadOps =>
        LET pre == rd_call.pre
            n == rd_call.arg
        IN  /\ ~rd_call.panic
            /\ IF Len(pre.buf) - pre.pos < n
               THEN ~rd_call.res.some /\ rd = pre
               ELSE /\ rd_call.res.some
                    /\ RefValueIs(rd_call.op, rd_call.res.val, RefBytesAt(pre, n))
                    /\ rd.buf = pre.buf
                    /\ rd.pos = pre.pos + n
                    /\ Reader_remaining(rd) = Reader_remaining(pre) - n

C24_Witness ==
    /\ rd_call.op = "read_u64"
    /\ rd_call.pre.pos = 3
    /\ rd_call.res.some
    /\ rd_call.res.val = <<48813, 40075, 31337, 22599>>
    /\ rd.pos = 11

\* C25: after any sequence of reads and seeks on a Reader over n bytes the
\* cursor is within 0..n and remaining() is n - pos.
C25_CursorInBuffer ==
    /\ rd.pos >= 0
    /\ rd.pos <= Len(rd.buf)
    /\ Reader_remaining(rd) + rd.pos = Len(rd.buf)
    /\ Reader_remaining(rd) >= 0

C25_Witness ==
    /\ rd_count = 3
    /\ rd_call.op = "read_u8" /\ ~rd_call.res.some
    /\ rd_call.pre.pos = Len(rd.buf) /\ Len(rd.buf) = MaxReaderBuf
    /\ rd.pos = Len(rd.buf)

\* C26: seek(pos) with pos above the buffer length returns a failure signal
\* to the caller without terminating the process and leaves the cursor
\* unchanged; with pos within the buffer length it sets the cursor to pos.
C26_SeekFailsBySignal ==
    rd_call.op = "seek" =>
        IF rd_call.arg > Len(rd_call.pre.buf)
        THEN ~rd_call.panic /\ rd = rd_call.pre
        ELSE ~rd_call.panic /\ rd.pos = rd_call.arg /\ rd.buf = rd_call.pre.buf

(***************************************************************************)
(* Ble                                                                     *)
(***************************************************************************)
\* C27: set_le_scan_parameters sends a Command packet with opcode 0x200B
\* (OGF 0x08, OCF 0x0B), little-endian, then the length 7 and the 7-byte
\* block scan_type, scan_interval, scan_window, own_addr_type,
\* filter_policy; its opcode differs from that sent by set_le_scan_enable.
C27_ScanParametersOpcode ==
    \A i \in 1..Len(ble_sent) :
        ble_sent[i].method = "set_le_scan_parameters" =>
            /\ ble_sent[i].bytes = <<1, 11, 32, 7, 1, 16, 0, 16, 0, 0, 0>>
            /\ \A j \in 1..Len(ble_sent) :
                   ble_sent[j].method = "set_le_scan_enable" =>
                       SubSeq(ble_sent[j].bytes, 2, 3) # SubSeq(ble_sent[i].bytes, 2, 3)

(***************************************************************************)
(* State                                                                   *)
(***************************************************************************)
\* the buttons in the order they are shifted out, and each one's setter
RefButtons == <<"set_b", "set_y", "set_select", "set_start", "set_up", "set_down",
                "set_left", "set_right", "set_a", "set_x", "set_l", "set_r">>

RefButtonOf(op) == CHOOSE k \in 0..11 : RefButtons[k + 1] = op

\* bit k of a 16-bit value, and its two fields
RefBit(v, k) == (v \div (2 ^ k)) % 2

RefButtonBits(v) == v % 4096

RefCycle(v) == v \div 4096

\* C29: counted from cycle 0 (Default or reset_cycle) with no setter called
\* since, the k-th call of next() returns the stored bit of button k for
\* k < 12 (order B, Y, Select, Start, Up, Down, Left, Right, A, X, L, R) and
\* true for k = 12..15, and the pattern repeats with period 16.
C29_ShiftsOutButtonsThenHigh ==
    (st_call.op = "next" /\ st_n >= 1) =>
        LET k == (st_n - 1) % 16
        IN st_call.ret = (IF k < 12 THEN RefBit(st_base, k) = 1 ELSE TRUE)

C29_Witness ==
    /\ st_call.op = "next"
    /\ st_n = 18
    /\ RefBit(st_base, 1) = 0
    /\ RefBit(st_base, 0) = 1
    /\ st_call.ret = FALSE

\* C30: the cycle counter is always in 0..15; next() advances it by one
\* modulo 16 and, like reset_cycle(), changes no button bit; set_<button>(v)
\* sets that button's bit to v and leaves the other 11 button bits and the
\* cycle counter unchanged.
C30_FieldsAreIndependent ==
    /\ st_value \in 0..65535
    /\ RefCycle(st_value) \in 0..15
    /\ st_call.op = "next" =>
           /\ RefCycle(st_value) = (RefCycle(st_call.pre) + 1) % 16
           /\ RefButtonBits(st_value) = RefButtonBits(st_call.pre)
    /\ st_call.op = "reset_cycle" =>
           /\ RefCycle(st_value) = 0
           /\ RefButtonBits(st_value) = RefButtonBits(st_call.pre)
    /\ st_call.op \in {RefButtons[i] : i \in 1..12} =>
           /\ RefBit(st_value, RefButtonOf(st_call.op)) = (IF st_call.arg THEN 1 ELSE 0)
           /\ \A k \in 0..15 :
                  k # RefButtonOf(st_call.op) => RefBit(st_value, k) = RefBit(st_call.pre, k)

C30_Witness ==
    /\ st_call.op = "next"
    /\ RefCycle(st_call.pre) = 15
    /\ RefCycle(st_value) = 0
    /\ RefButtonBits(st_value) = 4095 - 2 ^ 11 - 2 ^ 4
====
